---- MODULE Spec2Model ----
(***************************************************************************)
(* Model of the screen-recording pipeline of CleanSnap: the renderer hook  *)
(* useVideoRecorder (src/hooks/useVideoRecorder.ts), the licensing         *)
(* collaborator (src/services/geminiService.ts), the main-process          *)
(* recording stream handlers (src/index.tsx), the frame buffer             *)
(* (src/utils/frameBuffer.ts), the handler of the area selection           *)
(* (src/components/VideoRecorder.tsx) and the bitrate function of          *)
(* PerformanceOptimizer (src/unnamed/part_008).                            *)
(*                                                                         *)
(* The hook runs on one event loop.  Every action below is one             *)
(* synchronous segment of a handler: from its entry, or from the           *)
(* resumption of an await, up to its next await or its return.  The React  *)
(* state updates of a segment are batched into one render, and the effects *)
(* of that render are part of the action (operator Render).                *)
(*                                                                         *)
(* Modelling assumptions:                                                  *)
(*  - the Electron branch (isElectron) is the one taken;                   *)
(*  - systemAudioStreamRef is always null (line 251) and is left out;      *)
(*  - an encoder changes state only through start/pause/resume/stop;       *)
(*  - the getTranslation prop keeps its identity between renders;          *)
(*  - unlink of an existing temp file succeeds;                            *)
(*  - the percentages the transcoder reports do not go back;               *)
(*  - the reads of different chunks' blobs (arrayBuffer) run in parallel   *)
(*    and may finish in any order, and a timer gives no ordering;          *)
(*  - frames are put into and taken from the FrameBuffer of a session by   *)
(*    its environment: no code under src/ calls add or get on it, so in    *)
(*    the application the drop rate the draw loop reads is always 0;       *)
(*  - widths, heights and frame rates are whole numbers; the products and  *)
(*    quotients of doubles are modelled exactly on the sizes used here;    *)
(*  - the times of the draw loop are exact, in units of 25/3 ms, and the   *)
(*    callbacks of requestAnimationFrame come at non-decreasing times;     *)
(*  - the three stream handlers of the main process may be called in any   *)
(*    order, one stop-recording-stream call at a time, and a handler       *)
(*    suspended at an await lets the others run.                           *)
(***************************************************************************)
EXTENDS Integers, Naturals, FiniteSets, Sequences, TLC

\* ---------------------------------------------------------------- bounds
\* Number of startRecording calls that get past the guard.
MaxSessions == 2
\* Timer ticks explored by the general specification.
MaxTicks == 2
\* Timer ticks explored by the duration-limit specification.
LimitTicks == 601
\* startRecording calls explored by the duration-limit specification.
LimitSessions == 1

\* Chunks an encoder emits before it is stopped.
MaxChunks == 3
\* Frames offered to a FrameBuffer.
MaxFrames == 10
\* Frames drawn by a draw loop: three performance evaluations.
MaxDrawn == 90
\* Latest callback of a paced draw loop and longest time between two
\* callbacks, in units of 25/3 ms.
MaxTime == 48
MaxGap == 19
\* Streams opened by start-recording-stream, and chunks written to one.
MaxStreams == 2
MaxWrites == 2

\* ------------------------------------------------------ program constants
\* FrameBuffer: default capacity, and the clamp of adjustQueueDepth.
DefaultMaxSize == 8
MinQueueDepth == 3
MaxQueueDepth == 8
\* Highest bitrate the H.264 encoder accepts, bits per second.
MaxBitrate == 12000000
\* Frames between two performance evaluations of the draw loop.
EvaluationPeriod == 30
\* Lowest target frame rate of the congestion response, and its step.
MinFrameRate == 15
FrameRateStep == 5
\* GIF Auto-Stop threshold, seconds.
GifMaxDuration == 60
\* Cap returned for unauthorized devices, seconds.
UnlicensedMaxDuration == 600

Calls == 1..MaxSessions
Regions == {"none", "region"}
\* <<region, includeCamera, includeMicrophone>>
AllInputs == Regions \X BOOLEAN \X BOOLEAN
\* Two recordings, one through each pipeline: full screen under the settings
\* of a fresh installation (camera off, microphone on: Direct Mode), and a
\* region with the camera overlay and no microphone (Composite Mode).
LimitInputs == {<<"none", FALSE, TRUE>>, <<"region", TRUE, FALSE>>}
Formats == {"mp4", "gif"}

VARIABLES
    isRecording,         \* useState
    isPaused,            \* useState
    isExporting,         \* useState
    recordingDuration,   \* useState
    saveFormat,          \* useState (setting)
    isAuthorized,        \* license status read by getMaxRecordingDuration
    timerIntervalRef,    \* TRUE iff the 1-second interval is installed
    isProcessingRef,     \* the "already processing" flag
    recordingRegionRef,  \* region stored by the last accepted start
    mediaRecorderRef,    \* 0 = null, k = encoder built by call k
    displayStreamRef,    \* 0 = null, k = screen feed acquired by call k
    cameraStreamRef,     \* 0 = null, k = camera feed acquired by call k
    recordingCanvasRef,  \* 0 = null, k = canvas created by call k
    nextCall,            \* number of startRecording calls accepted so far
    call,                \* per accepted call: position and captured values
    feed,                \* per call: state of the feeds it acquired
    recorder,            \* per call: state of the MediaRecorder it built
    canvas,              \* per call: state of its canvas draw loop
    onstop,              \* per call: position of its encoder's onstop handler
    alerts,              \* user-facing notices and auto-stop counters
    ticks,               \* timer callbacks run since the last accepted start
    recordingWriteStream,\* main process: 0 = null, k = stream opened for call k
    stream,              \* main process: per call, state of its temp stream
    job,                 \* main process: one stop-recording-stream call in detail
    pipe,                \* one encoder's chunks on their way to the temp file
    fb,                  \* a FrameBuffer instance
    geo,                 \* one area selection: rectangle, region and crops
    loop,                \* the draw loop of one Composite Mode session
    ipc                  \* main process: its stream handlers, by segment

vars == <<isRecording, isPaused, isExporting, recordingDuration, saveFormat,
          isAuthorized, timerIntervalRef, isProcessingRef, recordingRegionRef,
          mediaRecorderRef, displayStreamRef, cameraStreamRef,
          recordingCanvasRef, nextCall, call, feed, recorder, canvas, onstop,
          alerts, ticks, recordingWriteStream, stream, job, pipe, fb, geo, loop,
          ipc>>

\* The whole state as one record, so that the hook's functions can be
\* written as functions from state to state.
Cur ==
    [isRecording |-> isRecording, isPaused |-> isPaused,
     isExporting |-> isExporting, recordingDuration |-> recordingDuration,
     saveFormat |-> saveFormat, isAuthorized |-> isAuthorized,
     timerIntervalRef |-> timerIntervalRef, isProcessingRef |-> isProcessingRef,
     recordingRegionRef |-> recordingRegionRef,
     mediaRecorderRef |-> mediaRecorderRef,
     displayStreamRef |-> displayStreamRef,
     cameraStreamRef |-> cameraStreamRef,
     recordingCanvasRef |-> recordingCanvasRef, nextCall |-> nextCall,
     call |-> call, feed |-> feed, recorder |-> recorder, canvas |-> canvas,
     onstop |-> onstop, alerts |-> alerts, ticks |-> ticks,
     recordingWriteStream |-> recordingWriteStream, stream |-> stream]

Set(s) ==
    /\ isRecording' = s.isRecording
    /\ isPaused' = s.isPaused
    /\ isExporting' = s.isExporting
    /\ recordingDuration' = s.recordingDuration
    /\ saveFormat' = s.saveFormat
    /\ isAuthorized' = s.isAuthorized
    /\ timerIntervalRef' = s.timerIntervalRef
    /\ isProcessingRef' = s.isProcessingRef
    /\ recordingRegionRef' = s.recordingRegionRef
    /\ mediaRecorderRef' = s.mediaRecorderRef
    /\ displayStreamRef' = s.displayStreamRef
    /\ cameraStreamRef' = s.cameraStreamRef
    /\ recordingCanvasRef' = s.recordingCanvasRef
    /\ nextCall' = s.nextCall
    /\ call' = s.call
    /\ feed' = s.feed
    /\ recorder' = s.recorder
    /\ canvas' = s.canvas
    /\ onstop' = s.onstop
    /\ alerts' = s.alerts
    /\ ticks' = s.ticks
    /\ recordingWriteStream' = s.recordingWriteStream
    /\ stream' = s.stream
    /\ UNCHANGED <<job, pipe, fb, geo, loop, ipc>>

\* The values a startRecording call closes over.  They exist from the call
\* to the return of its last handler (the catch block, or the onstop handler
\* of the encoder it built); Retire drops them.
NoCall ==
    [pc |-> "none", region |-> "none", includeCamera |-> FALSE,
     includeMicrophone |-> FALSE, saveFormat |-> "mp4", mode |-> "none",
     micFailed |-> FALSE, cameraFailed |-> FALSE, result |-> "none"]

Retire(s, k) == [s EXCEPT !.call[k] = [NoCall EXCEPT !.pc = s.call[k].pc]]

NoFeed == [screen |-> "none", mic |-> "none", cam |-> "none"]

\* What the user was shown since the last accepted startRecording
\* (startFailed, saveFailed), and per encoder k (0 = no encoder) how often an
\* auto-stop effect called stopRecording, and showed the limit notice, while
\* mediaRecorderRef was k.
NoAlerts ==
    [startFailed |-> "none", saveFailed |-> FALSE,
     gifStops |-> [k \in 0..MaxSessions |-> 0],
     limitStops |-> [k \in 0..MaxSessions |-> 0],
     limitNotices |-> [k \in 0..MaxSessions |-> 0]]

\* ------------------------------------------------ the export job, initially
Dests == {".mp4", ".webm", ".gif", ".other"}
\* codec_name of the first video / audio stream; "none" when there is no such
\* stream or the probe failed.
VideoCodecs == {"h264", "vp9", "none"}
AudioCodecs == {"aac", "mp3", "opus", "none"}
\* Percentages the transcoder reports, directly or through its timemark.
NativePercents == {0, 12, 40, 97, 130}
\* Values of the time-based estimate of the re-encode fallback timer.
TimeBased == {10, 35, 60, 90}

\* What the renderer was sent on 'export-progress': the last value, how many
\* times 100, whether anything followed a 100, and whether a value outside
\* [5, 95] was sent while the transcoder ran.
NoSent ==
    [last |-> -1, hundreds |-> 0, afterHundred |-> FALSE,
     outOfRange |-> FALSE]

NoJob ==
    [pc |-> "idle", format |-> "mp4", dest |-> "none", vcodec |-> "none",
     acodec |-> "none", useStreamCopy |-> FALSE, options |-> {},
     lastProgress |-> 0, interval |-> FALSE, native |-> 0,
     transcoder |-> "none", copied |-> FALSE, temp |-> "none",
     result |-> "none", error |-> "none", hookAlert |-> FALSE,
     probe |-> "none", sent |-> NoSent]

\* No encoder yet: nothing produced, no stream open.
NoPipe ==
    [encoder |-> "none", onstop |-> "none", produced |-> 0, reading |-> {},
     streamOpen |-> FALSE, file |-> <<>>, dropped |-> {}]

\* What the last call on a FrameBuffer was and what it returned: the boolean
\* of add, the frames of get (none for null) and getAll, and the argument of
\* adjustQueueDepth.
NoCallYet == [op |-> "none", ok |-> FALSE, frames |-> <<>>, fps |-> 0]

\* new FrameBuffer(): the defaults of the constructor.  onlyAdded records
\* that no method other than add has been called on the instance, and
\* cleared that clear has been called on it.
NoBuffer ==
    [queue |-> <<>>, maxSize |-> DefaultMaxSize, dropStrategy |-> "drop-oldest",
     framesReceived |-> 0, framesDropped |-> 0, framesProcessed |-> 0,
     onlyAdded |-> TRUE, cleared |-> FALSE, ret |-> NoCallYet]

\* A rectangle, and a region whose x and width are xn / dw and wn / dw and
\* whose y and height are yn / dh and hn / dh.
NoRect == [x |-> 0, y |-> 0, width |-> 0, height |-> 0]
NoSize == [width |-> 0, height |-> 0]
NoRegion == [xn |-> 0, yn |-> 0, wn |-> 0, hn |-> 0, dw |-> 1, dh |-> 1]

\* No area selected.  bounds is in quarters of a pixel: the selection UI
\* sends x + 5.5, and fractions of a pixel under an aspect-ratio lock.
NoGeo ==
    [pc |-> "none", from |-> "none", bounds |-> NoRect, screen |-> NoSize,
     work |-> NoSize, hasRegion |-> FALSE, region |-> NoRegion,
     previewVideo |-> NoSize, preview |-> NoRect, video |-> NoSize,
     crop |-> NoRect, fps |-> 0, bitrate |-> 0]

\* No draw loop yet.  targetFrameRate is the React state; actualFps and
\* frameCount are the loop's own; congested counts the evaluations of the
\* session that saw a drop rate above 10%, and evaluated tells what the last
\* draw call saw ("none" when it did not evaluate).  lastDrawTime is the
\* loop's own, and timestamp is the argument of its last callback; both are
\* in units of 25/3 ms, in which the interval of every frame rate used here
\* is a whole number.
NoLoop ==
    [pc |-> "idle", targetFrameRate |-> 30, actualFps |-> 0,
     frameCount |-> 0, congested |-> 0, evaluated |-> "none",
     lastDrawTime |-> 0, timestamp |-> 0]

\* The streams start-recording-stream may open, by number.
Streams == 1 .. MaxStreams

\* No stop-recording-stream call yet: ending is the stream whose end it
\* awaits, tempInput the number of the file it works on (0 = none).
NoStop ==
    [pc |-> "idle", ending |-> 0, tempInput |-> 0, prompted |-> FALSE,
     result |-> "none"]

\* The streaming state of the main process after startup:
\* recordingWriteStream and recordingTempPath are null (0); no stream was
\* opened, no temp file exists and nothing was written; ret is what the last
\* handler to return has returned.
NoIpc ==
    [recordingWriteStream |-> 0, recordingTempPath |-> 0, opened |-> 0,
     streams |-> [n \in Streams |-> "none"],
     files |-> [n \in Streams |-> "none"],
     written |-> [n \in Streams |-> 0],
     stop |-> NoStop,
     ret |-> [op |-> "none", value |-> "none"]]

\* The hook and the main process after construction.
InitHook ==
    /\ isRecording = FALSE
    /\ isPaused = FALSE
    /\ isExporting = FALSE
    /\ recordingDuration = 0
    /\ saveFormat = "mp4"
    /\ isAuthorized = FALSE
    /\ timerIntervalRef = FALSE
    /\ isProcessingRef = FALSE
    /\ recordingRegionRef = "none"
    /\ mediaRecorderRef = 0
    /\ displayStreamRef = 0
    /\ cameraStreamRef = 0
    /\ recordingCanvasRef = 0
    /\ nextCall = 0
    /\ call = [k \in Calls |-> NoCall]
    /\ feed = [k \in Calls |-> NoFeed]
    /\ recorder = [k \in Calls |-> "none"]
    /\ canvas = [k \in Calls |-> "none"]
    /\ onstop = [k \in Calls |-> "none"]
    /\ alerts = NoAlerts
    /\ ticks = 0
    /\ recordingWriteStream = 0
    /\ stream = [k \in Calls |-> "none"]
    /\ ipc = NoIpc

Init ==
    /\ InitHook
    /\ job = NoJob
    /\ pipe = NoPipe
    /\ fb = NoBuffer
    /\ loop = NoLoop
    /\ geo = NoGeo

\* ------------------------------------------------- licensing collaborator
getMaxRecordingDuration(authorized) ==
    IF authorized THEN 0 ELSE UnlicensedMaxDuration

\* ------------------------------------------------------------ the hook
\* cleanupStreams: stop what the refs point at, clear the refs and the timer.
cleanupStreams(s) ==
    LET s1 == IF s.cameraStreamRef # 0
              THEN [s EXCEPT !.feed[s.cameraStreamRef].cam = "stopped",
                             !.cameraStreamRef = 0]
              ELSE s
        s2 == IF s1.displayStreamRef # 0
              THEN [s1 EXCEPT !.feed[s1.displayStreamRef].screen = "stopped",
                              !.displayStreamRef = 0]
              ELSE s1
        s3 == IF s2.recordingCanvasRef # 0
                 /\ s2.canvas[s2.recordingCanvasRef] \in {"drawing", "stopped"}
              THEN [s2 EXCEPT !.canvas[s2.recordingCanvasRef] = "stopped",
                              !.recordingCanvasRef = 0]
              ELSE s2
    IN  [s3 EXCEPT !.timerIntervalRef = FALSE]

\* Mutant of stopRecording: the encoder's state is not tested.
stopRecordingUnguarded(s) ==
    IF s.mediaRecorderRef # 0
    THEN [s EXCEPT !.recorder[s.mediaRecorderRef] = "inactive",
                   !.onstop[s.mediaRecorderRef] = "queued",
                   !.isRecording = FALSE,
                   !.isPaused = FALSE]
    ELSE cleanupStreams(s)

\* Mutant of stopRecording: the forced cleanup starts an export.
stopRecordingExports(s) ==
    IF s.mediaRecorderRef # 0 /\ s.recorder[s.mediaRecorderRef] # "inactive"
    THEN [s EXCEPT !.recorder[s.mediaRecorderRef] = "inactive",
                   !.onstop[s.mediaRecorderRef] = "queued",
                   !.isRecording = FALSE,
                   !.isPaused = FALSE]
    ELSE [cleanupStreams(s) EXCEPT !.isExporting = TRUE]

\* stopRecording: stop the current encoder, or force a cleanup.
stopRecording(s) ==
    IF s.mediaRecorderRef # 0 /\ s.recorder[s.mediaRecorderRef] # "inactive"
    THEN [s EXCEPT !.recorder[s.mediaRecorderRef] = "inactive",
                   !.onstop[s.mediaRecorderRef] = "queued",
                   !.isRecording = FALSE,
                   !.isPaused = FALSE]
    ELSE cleanupStreams(s)

pauseRecording(s) ==
    IF s.mediaRecorderRef # 0 /\ s.recorder[s.mediaRecorderRef] = "recording"
    THEN [s EXCEPT !.recorder[s.mediaRecorderRef] = "paused",
                   !.isPaused = TRUE]
    ELSE s

resumeRecording(s) ==
    IF s.mediaRecorderRef # 0 /\ s.recorder[s.mediaRecorderRef] = "paused"
    THEN [s EXCEPT !.recorder[s.mediaRecorderRef] = "recording",
                   !.isPaused = FALSE]
    ELSE s

\* Mutant of TimerEffect: the interval is kept while paused.
TimerEffectIgnoresPause(old, new) ==
    IF old.isRecording # new.isRecording \/ old.isPaused # new.isPaused
    THEN [new EXCEPT !.timerIntervalRef = new.isRecording]
    ELSE new

\* Duration Timer effect, deps [isRecording, isPaused].
TimerEffect(old, new) ==
    IF old.isRecording # new.isRecording \/ old.isPaused # new.isPaused
    THEN [new EXCEPT !.timerIntervalRef = new.isRecording /\ ~new.isPaused]
    ELSE new

\* GIF Auto-Stop effect, deps [recordingDuration, isRecording, saveFormat].
\* r is the rendered state the effect closes over, s the state it acts on.
\* Mutant of GifAutoStopFires: the threshold is compared with > instead of >=.
GifAutoStopFiresLate(old, r) ==
    /\ \/ old.recordingDuration # r.recordingDuration
       \/ old.isRecording # r.isRecording
       \/ old.saveFormat # r.saveFormat
    /\ r.isRecording
    /\ r.saveFormat = "gif"
    /\ r.recordingDuration > GifMaxDuration

GifAutoStopFires(old, r) ==
    /\ \/ old.recordingDuration # r.recordingDuration
       \/ old.isRecording # r.isRecording
       \/ old.saveFormat # r.saveFormat
    /\ r.isRecording
    /\ r.saveFormat = "gif"
    /\ r.recordingDuration >= GifMaxDuration

GifAutoStopEffect(old, r, s) ==
    IF GifAutoStopFires(old, r)
    THEN [stopRecording(s) EXCEPT !.alerts.gifStops[s.mediaRecorderRef] = @ + 1]
    ELSE s

\* License duration limit effect, deps [recordingDuration, isRecording,
\* isPaused, getTranslation].
\* Mutant of LicenseLimitFires: the paused check is missing.
LicenseLimitFiresWhilePaused(old, r) ==
    /\ \/ old.recordingDuration # r.recordingDuration
       \/ old.isRecording # r.isRecording
       \/ old.isPaused # r.isPaused
    /\ r.isRecording
    /\ getMaxRecordingDuration(r.isAuthorized) > 0
    /\ r.recordingDuration >= getMaxRecordingDuration(r.isAuthorized)

LicenseLimitFires(old, r) ==
    /\ \/ old.recordingDuration # r.recordingDuration
       \/ old.isRecording # r.isRecording
       \/ old.isPaused # r.isPaused
    /\ r.isRecording
    /\ ~r.isPaused
    /\ getMaxRecordingDuration(r.isAuthorized) > 0
    /\ r.recordingDuration >= getMaxRecordingDuration(r.isAuthorized)

LicenseLimitEffect(old, r, s) ==
    IF LicenseLimitFires(old, r)
    THEN [stopRecording(s) EXCEPT
              !.alerts.limitStops[s.mediaRecorderRef] = @ + 1,
              !.alerts.limitNotices[s.mediaRecorderRef] = @ + 1]
    ELSE s

\* The effects of one render, in declaration order: old is the state of the
\* previous render, new the state this render shows.
RunEffects(old, new) ==
    LET s1 == TimerEffect(old, new)
        s2 == GifAutoStopEffect(old, new, s1)
    IN  LicenseLimitEffect(old, new, s2)

\* The renders that follow a batch of state updates.  An effect that stops
\* the encoder updates isRecording and isPaused, which causes one more
\* render; its effects update no state (both auto-stop conditions need
\* isRecording), so no third render follows.
Render(old, new) ==
    LET s == RunEffects(old, new)
    IN  IF s.isRecording # new.isRecording \/ s.isPaused # new.isPaused
        THEN RunEffects(new, s)
        ELSE s

\* ------------------------------------------------ startRecording, by segment
\* Entry of startRecording up to the await of the screen feed.  A call made
\* while isProcessingRef is set returns at once and changes nothing.
startRecording(s, region, includeCamera, includeMicrophone) ==
    LET k == s.nextCall + 1
    IN  [s EXCEPT !.isProcessingRef = TRUE,
                  !.recordingDuration = 0,
                  !.recordingRegionRef = region,
                  !.nextCall = k,
                  !.ticks = 0,
                  !.alerts.startFailed = "none",
                  !.alerts.saveFailed = FALSE,
                  !.call[k] = [NoCall EXCEPT !.pc = "screen",
                                             !.region = region,
                                             !.includeCamera = includeCamera,
                                             !.includeMicrophone = includeMicrophone,
                                             !.saveFormat = s.saveFormat]]

\* catch and finally of startRecording, for the error thrown at step cause.
startFailed(s, k, cause) ==
    LET s1 == [s EXCEPT !.isRecording = FALSE, !.isPaused = FALSE]
        s2 == cleanupStreams(s1)
        s3 == [s2 EXCEPT !.isProcessingRef = FALSE,
                         !.call[k].pc = "failed",
                         !.alerts.startFailed = cause]
    IN  Retire(s3, k)

\* Step 4: the mode decision, up to the next await.
composeStreams(s, k) ==
    IF (s.call[k].includeCamera /\ s.cameraStreamRef # 0)
       \/ s.recordingRegionRef # "none"
    THEN [s EXCEPT !.call[k].mode = "composite",
                   !.recordingCanvasRef = k,
                   !.canvas[k] = "created",
                   !.call[k].pc = "play"]
    ELSE [s EXCEPT !.call[k].mode = "direct",
                   !.call[k].pc = "file"]

\* Step 3: await the camera when it is enabled.
afterMicrophone(s, k) ==
    IF s.call[k].includeCamera
    THEN [s EXCEPT !.call[k].pc = "camera"]
    ELSE composeStreams(s, k)

\* Step 2: await the microphone when it is enabled.
afterScreen(s, k) ==
    IF s.call[k].includeMicrophone
    THEN [s EXCEPT !.call[k].pc = "mic"]
    ELSE afterMicrophone(s, k)

screenObtained(s, k) ==
    afterScreen([s EXCEPT !.feed[k].screen = "live",
                          !.displayStreamRef = k], k)

\* The microphone stream is held in the local picStream only.
micObtained(s, k) ==
    afterMicrophone([s EXCEPT !.feed[k].mic = "live"], k)

\* Mutant of micFailed: the microphone error is rethrown.
micFailedAborts(s, k) == startFailed(s, k, "mic")

micFailed(s, k) ==
    afterMicrophone([s EXCEPT !.call[k].micFailed = TRUE], k)

cameraObtained(s, k) ==
    composeStreams([s EXCEPT !.feed[k].cam = "live",
                             !.cameraStreamRef = k], k)

cameraFailed(s, k) ==
    composeStreams([s EXCEPT !.call[k].cameraFailed = TRUE], k)

\* Composite mode after play() and the 200 ms wait: the draw loop starts and
\* stopDrawing is attached to the canvas of this call.
canvasReady(s, k) ==
    [s EXCEPT !.canvas[k] = "drawing", !.call[k].pc = "file"]

\* Step 6 to the end of the try block, and the finally.
encoderStarted(s, k) ==
    [s EXCEPT !.recorder[k] = "recording",
              !.mediaRecorderRef = k,
              !.isRecording = TRUE,
              !.isPaused = FALSE,
              !.isProcessingRef = FALSE,
              !.call[k].pc = "done"]

\* ------------------------------------------------ mediaRecorder.onstop
onstopCleanup(s) ==
    LET s1 == IF s.cameraStreamRef # 0
              THEN [s EXCEPT !.feed[s.cameraStreamRef].cam = "stopped",
                             !.cameraStreamRef = 0]
              ELSE s
        s2 == IF s1.displayStreamRef # 0
              THEN [s1 EXCEPT !.feed[s1.displayStreamRef].screen = "stopped",
                              !.displayStreamRef = 0]
              ELSE s1
    IN  IF s2.recordingCanvasRef # 0
           /\ s2.canvas[s2.recordingCanvasRef] \in {"drawing", "stopped"}
        THEN [s2 EXCEPT !.canvas[s2.recordingCanvasRef] = "stopped",
                        !.recordingCanvasRef = 0]
        ELSE s2

onstopBegin(s, k) ==
    [onstopCleanup(s) EXCEPT !.isExporting = TRUE, !.onstop[k] = "delay"]

\* The reply of stop-recording-stream, by kind of outcome.
Reply(kind) ==
    [success |-> kind = "success", canceled |-> kind = "canceled",
     error |-> kind \in {"error", "nostream"}]

\* Mutant of saveFailedAlert: a canceled reply is not told apart.
saveFailedAlertOnCancel(reply) == ~reply.success

\* onstop: alert('Save failed: ...') unless the reply is a success or canceled.
saveFailedAlert(reply) == ~reply.success /\ ~reply.canceled

onstopFinish(s, k) ==
    LET s1 == [s EXCEPT !.isExporting = FALSE,
                        !.alerts.saveFailed =
                            IF saveFailedAlert(Reply(s.call[k].result))
                            THEN TRUE ELSE @,
                        !.isProcessingRef = FALSE,
                        !.onstop[k] = "done"]
    IN  Retire(s1, k)

\* ------------------------------------------------ main process
\* ipcMain.handle('start-recording-stream'): a new stream replaces the
\* module-level one.
mainStartRecordingStream(s, k) ==
    [s EXCEPT !.recordingWriteStream = k,
              !.stream[k] = "open",
              !.call[k].pc = "fileOk"]

\* ipcMain.handle('stop-recording-stream').
mainStopRecordingStream(s, k, outcome) ==
    IF s.recordingWriteStream = 0
    THEN [s EXCEPT !.call[k].result = "nostream", !.onstop[k] = "reply"]
    ELSE [s EXCEPT !.stream[s.recordingWriteStream] = "ended",
                   !.recordingWriteStream = 0,
                   !.call[k].result = outcome,
                   !.onstop[k] = "reply"]

\* ---------------------------------------------------------------- actions
\* startRecording(sourceId, region) under the settings of the current render;
\* an input is <<region, includeCamera, includeMicrophone>>.
StartRecordingUpTo(n, Inputs) ==
    /\ ~isProcessingRef
    /\ nextCall < n
    /\ \E in \in Inputs :
          Set(Render(Cur, startRecording(Cur, in[1], in[2], in[3])))

ScreenObtained ==
    \E k \in Calls : /\ call[k].pc = "screen"
                     /\ Set(screenObtained(Cur, k))

ScreenFailed ==
    \E k \in Calls : /\ call[k].pc = "screen"
                     /\ Set(Render(Cur, startFailed(Cur, k, "screen")))

MicObtained ==
    \E k \in Calls : /\ call[k].pc = "mic"
                     /\ Set(micObtained(Cur, k))

MicFailed ==
    \E k \in Calls : /\ call[k].pc = "mic"
                     /\ Set(micFailed(Cur, k))

CameraObtained ==
    \E k \in Calls : /\ call[k].pc = "camera"
                     /\ Set(cameraObtained(Cur, k))

CameraFailed ==
    \E k \in Calls : /\ call[k].pc = "camera"
                     /\ Set(cameraFailed(Cur, k))

CanvasReady ==
    \E k \in Calls : /\ call[k].pc = "play"
                     /\ Set(canvasReady(Cur, k))

MainStartRecordingStream ==
    \E k \in Calls : /\ call[k].pc = "file"
                     /\ Set(mainStartRecordingStream(Cur, k))

MainStartRecordingStreamFails ==
    \E k \in Calls : /\ call[k].pc = "file"
                     /\ Set([Cur EXCEPT !.call[k].pc = "fileErr"])

FileStreamFailed ==
    \E k \in Calls : /\ call[k].pc = "fileErr"
                     /\ Set(Render(Cur, startFailed(Cur, k, "file")))

EncoderStarted ==
    \E k \in Calls : /\ call[k].pc = "fileOk"
                     /\ Set(Render(Cur, encoderStarted(Cur, k)))

EncoderFailed ==
    \E k \in Calls : /\ call[k].pc = "fileOk"
                     /\ Set(Render(Cur, startFailed(Cur, k, "encoder")))

\* The three calls below are steps only where they change something; a call
\* that changes nothing is a stuttering step.
StopRecording ==
    /\ stopRecording(Cur) # Cur
    /\ Set(Render(Cur, stopRecording(Cur)))

PauseRecording ==
    /\ pauseRecording(Cur) # Cur
    /\ Set(Render(Cur, pauseRecording(Cur)))

ResumeRecording ==
    /\ resumeRecording(Cur) # Cur
    /\ Set(Render(Cur, resumeRecording(Cur)))

OnStopBegin ==
    \E k \in Calls : /\ onstop[k] = "queued"
                     /\ Set(Render(Cur, onstopBegin(Cur, k)))

OnStopFinalize ==
    \E k \in Calls : /\ onstop[k] = "delay"
                     /\ Set([Cur EXCEPT !.onstop[k] = "finalize"])

MainStopRecordingStream ==
    \E k \in Calls, outcome \in {"success", "canceled", "error"} :
        /\ onstop[k] = "finalize"
        /\ Set(mainStopRecordingStream(Cur, k, outcome))

OnStopFinish ==
    \E k \in Calls : /\ onstop[k] = "reply"
                     /\ Set(Render(Cur, onstopFinish(Cur, k)))

TickUpTo(n) ==
    /\ timerIntervalRef
    /\ recordingDuration < n
    /\ Set(Render(Cur, [Cur EXCEPT !.recordingDuration = @ + 1,
                                   !.ticks = @ + 1]))

SetSaveFormat ==
    /\ saveFormat \in Formats
    /\ Set(Render(Cur, [Cur EXCEPT !.saveFormat = IF @ = "mp4" THEN "gif"
                                                ELSE "mp4"]))

ActivateLicense ==
    /\ ~isAuthorized
    /\ Set([Cur EXCEPT !.isAuthorized = TRUE])

ClearLicense ==
    /\ isAuthorized
    /\ Set([Cur EXCEPT !.isAuthorized = FALSE])

\* Every segment of the session lifecycle, with at most n accepted starts
\* whose inputs are drawn from Inputs.
Lifecycle(n, Inputs) ==
    \/ StartRecordingUpTo(n, Inputs)
    \/ ScreenObtained
    \/ ScreenFailed
    \/ MicObtained
    \/ MicFailed
    \/ CameraObtained
    \/ CameraFailed
    \/ CanvasReady
    \/ MainStartRecordingStream
    \/ MainStartRecordingStreamFails
    \/ FileStreamFailed
    \/ EncoderStarted
    \/ EncoderFailed
    \/ StopRecording
    \/ PauseRecording
    \/ ResumeRecording
    \/ OnStopBegin
    \/ OnStopFinalize
    \/ MainStopRecordingStream
    \/ OnStopFinish

\* The session lifecycle under every interleaving of its handlers.
Next ==
    \/ Lifecycle(MaxSessions, AllInputs)
    \/ TickUpTo(MaxTicks)

Spec == Init /\ [][Next]_vars

\* One session through either pipeline, run against the clock up to the
\* duration caps, with the format and the license changing at any time.
NextLimit ==
    \/ Lifecycle(LimitSessions, LimitInputs)
    \/ TickUpTo(LimitTicks)
    \/ SetSaveFormat
    \/ ActivateLicense
    \/ ClearLicense

SpecLimit == Init /\ [][NextLimit]_vars

\* ------------------------------------ stop-recording-stream, step by step
\* event.sender.send('export-progress', v)
send(j, v) ==
    [j EXCEPT !.sent =
        [last |-> v,
         hundreds |-> j.sent.hundreds + (IF v = 100 THEN 1 ELSE 0),
         afterHundred |-> j.sent.afterHundred \/ j.sent.hundreds > 0,
         outOfRange |-> j.sent.outOfRange
                        \/ (j.transcoder \in {"spawned", "running"}
                            /\ v \notin 5..95)]]

\* Entry of the handler: without an open stream it returns at once.
exportInvoke(j, format) ==
    IF j.temp # "open"
    THEN [j EXCEPT !.format = format, !.result = "nostream",
                   !.error = "No active stream", !.pc = "returned"]
    ELSE [j EXCEPT !.format = format, !.pc = "ending"]

exportStreamEnded(j) == [j EXCEPT !.temp = "closed", !.pc = "dialog"]

\* The save dialog returned.  A declined prompt unlinks the temp file.
exportDialog(j, canceled, dest) ==
    IF canceled
    THEN [j EXCEPT !.temp = "deleted", !.result = "canceled",
                   !.pc = "returned"]
    ELSE [j EXCEPT !.dest = dest, !.pc = "stat"]

\* The temp file of start-recording-stream is always named *.webm.
TempExt == ".webm"

GifOptions == {"-vf fps=15,scale,palette", "-loop 0"}

\* After stat and the duration probe: the first progress value, then the
\* branch on the format and the destination, up to the next await.
exportProbed(j) ==
    LET j1 == send(j, 5)
    IN  IF j1.format = "gif"
        THEN [j1 EXCEPT !.options = GifOptions, !.lastProgress = 5,
                        !.interval = TRUE, !.transcoder = "running",
                        !.pc = "run"]
        ELSE IF j1.dest = ".webm" /\ TempExt = ".webm"
        THEN [send(j1, 50) EXCEPT !.pc = "copy"]
        ELSE IF j1.dest = ".mp4"
        THEN [j1 EXCEPT !.pc = "probe"]
        ELSE [send(j1, 50) EXCEPT !.pc = "copy"]

\* Mutant of useStreamCopy: the audio codec is not tested.
useStreamCopyAnyAudio(v, a) == v = "h264"

useStreamCopy(v, a) == v = "h264" /\ (a \in {"aac", "mp3"} \/ a = "none")

Mp4Flags == {"-movflags +faststart", "-async 1", "-vsync cfr"}
VideoEncode ==
    {"-c:v libx264", "-preset", "-crf", "-profile:v", "-level", "-pix_fmt",
     "-threads", "-tune", "-x264-params"}
AudioEncode == {"-c:a aac", "-b:a", "-ar", "-ac"}

mp4Options(copy, v, a) ==
    IF copy
    THEN {"-c copy"} \cup Mp4Flags
    ELSE (IF v = "h264" THEN {"-c:v copy"} ELSE VideoEncode)
         \cup (IF a \in {"aac", "mp3"} THEN {"-c:a copy"} ELSE AudioEncode)
         \cup Mp4Flags \cup {"-r 30"}

\* Mutant of exportCodecsProbed: a probe error ends the export.
exportCodecsProbedFatal(j, ok, v, a) ==
    IF ~ok
    THEN [j EXCEPT !.probe = "failed", !.result = "error", !.error = "probe",
                   !.pc = "returned"]
    ELSE LET copy == useStreamCopy(v, a)
             j1 == [j EXCEPT !.vcodec = v, !.acodec = a,
                             !.useStreamCopy = copy,
                             !.options = mp4Options(copy, v, a),
                             !.probe = "ok",
                             !.lastProgress = 10]
         IN  [send(j1, 10) EXCEPT !.interval = TRUE,
                                  !.transcoder = "spawned", !.pc = "run"]

\* The codec probe returned (ok, or an error that leaves the codecs unknown):
\* the command is built, 10 is sent, the fallback timer is set and the
\* transcoder is spawned.  probe records which of the two happened.
exportCodecsProbed(j, ok, v, a) ==
    LET vc == IF ok THEN v ELSE "none"
        ac == IF ok THEN a ELSE "none"
        copy == ok /\ useStreamCopy(vc, ac)
        j1 == [j EXCEPT !.vcodec = vc, !.acodec = ac,
                        !.useStreamCopy = copy,
                        !.options = mp4Options(copy, vc, ac),
                        !.probe = IF ok THEN "ok" ELSE "failed",
                        !.lastProgress = 10]
    IN  [send(j1, 10) EXCEPT !.interval = TRUE, !.transcoder = "spawned",
                             !.pc = "run"]

\* The transcoder's 'start' event (MP4 only has a handler).
exportStarted(j) == send([j EXCEPT !.transcoder = "running"], 15)

\* One firing of the fallback timer; tb is the time-based estimate.
exportTimer(j, tb) ==
    IF j.format = "gif"
    THEN IF j.lastProgress < 90
         THEN send([j EXCEPT !.lastProgress = @ + 5], j.lastProgress + 5)
         ELSE j
    ELSE IF j.useStreamCopy
    THEN IF j.lastProgress < 95
         THEN send([j EXCEPT !.lastProgress = 95], 95)
         ELSE j
    ELSE IF tb > j.lastProgress
    THEN send([j EXCEPT !.lastProgress = tb], tb)
    ELSE IF j.lastProgress < 50
    THEN send([j EXCEPT !.lastProgress = @ + 3], j.lastProgress + 3)
    ELSE j

\* Mutant of Clamp: the upper bound is missing.
ClampBelowOnly(lo, p) == IF p < lo THEN lo ELSE p

\* Math.min(95, Math.max(lo, p))
Clamp(lo, p) == IF p < lo THEN lo ELSE IF p > 95 THEN 95 ELSE p

\* The transcoder's 'progress' event with percentage p (an event with
\* neither a percentage nor a usable timemark changes nothing).
exportProgress(j, p) ==
    LET v == Clamp(IF j.format = "gif" THEN 5 ELSE 10, p)
    IN  send([j EXCEPT !.lastProgress = v, !.native = p], v)

\* The transcoder's 'end' event.
exportEnd(j) ==
    [send([j EXCEPT !.transcoder = "ended", !.interval = FALSE], 100)
        EXCEPT !.pc = "cleanup"]

\* Mutant of exportError: the temp file is unlinked on failure.
exportErrorUnlinks(j) ==
    [j EXCEPT !.transcoder = "failed", !.interval = FALSE, !.temp = "deleted",
              !.result = "error", !.error = "tool", !.pc = "returned"]

\* The transcoder's 'error' event, and the catch of the handler.
exportError(j) ==
    [j EXCEPT !.transcoder = "failed", !.interval = FALSE,
              !.result = "error", !.error = "tool", !.pc = "returned"]

\* fs.promises.copyFile returned.
exportCopied(j, ok) ==
    IF ok
    THEN [send([j EXCEPT !.copied = TRUE], 100) EXCEPT !.pc = "cleanup"]
    ELSE [j EXCEPT !.result = "error", !.error = "copy", !.pc = "returned"]

\* unlink(tempInput) and the success reply.
exportCleanup(j) ==
    [j EXCEPT !.temp = "deleted", !.result = "success", !.pc = "returned"]

\* onstop of the hook receives the reply.
hookReceives(j) ==
    [j EXCEPT !.hookAlert = saveFailedAlert(Reply(j.result)), !.pc = "done"]

hookVars ==
    <<isRecording, isPaused, isExporting, recordingDuration, saveFormat,
      isAuthorized, timerIntervalRef, isProcessingRef, recordingRegionRef,
      mediaRecorderRef, displayStreamRef, cameraStreamRef,
      recordingCanvasRef, nextCall, call, feed, recorder, canvas, onstop,
      alerts, ticks, recordingWriteStream, stream, ipc>>

ExportInvoke ==
    /\ job.pc = "idle"
    /\ \E format \in Formats : job' = exportInvoke(job, format)
    /\ UNCHANGED <<hookVars, pipe, fb, geo, loop>>

ExportStreamEnded ==
    /\ job.pc = "ending"
    /\ job' = exportStreamEnded(job)
    /\ UNCHANGED <<hookVars, pipe, fb, geo, loop>>

ExportDialog ==
    /\ job.pc = "dialog"
    /\ \E canceled \in BOOLEAN, dest \in Dests :
          job' = exportDialog(job, canceled, dest)
    /\ UNCHANGED <<hookVars, pipe, fb, geo, loop>>

ExportProbed ==
    /\ job.pc = "stat"
    /\ job' = exportProbed(job)
    /\ UNCHANGED <<hookVars, pipe, fb, geo, loop>>

ExportCodecsProbed ==
    /\ job.pc = "probe"
    /\ \E ok \in BOOLEAN, v \in VideoCodecs, a \in AudioCodecs :
          job' = exportCodecsProbed(job, ok, v, a)
    /\ UNCHANGED <<hookVars, pipe, fb, geo, loop>>

ExportStarted ==
    /\ job.pc = "run"
    /\ job.transcoder = "spawned"
    /\ job' = exportStarted(job)
    /\ UNCHANGED <<hookVars, pipe, fb, geo, loop>>

ExportTimer ==
    /\ job.pc = "run"
    /\ job.interval
    /\ \E tb \in TimeBased : job' = exportTimer(job, tb)
    /\ UNCHANGED <<hookVars, pipe, fb, geo, loop>>

\* The transcoder's own percentages do not go back.
ExportProgress ==
    /\ job.pc = "run"
    /\ job.transcoder = "running"
    /\ \E p \in NativePercents :
          /\ p >= job.native
          /\ job' = exportProgress(job, p)
    /\ UNCHANGED <<hookVars, pipe, fb, geo, loop>>

ExportEnd ==
    /\ job.pc = "run"
    /\ job.transcoder = "running"
    /\ job' = exportEnd(job)
    /\ UNCHANGED <<hookVars, pipe, fb, geo, loop>>

ExportError ==
    /\ job.pc = "run"
    /\ job.transcoder \in {"spawned", "running"}
    /\ job' = exportError(job)
    /\ UNCHANGED <<hookVars, pipe, fb, geo, loop>>

ExportCopied ==
    /\ job.pc = "copy"
    /\ \E ok \in BOOLEAN : job' = exportCopied(job, ok)
    /\ UNCHANGED <<hookVars, pipe, fb, geo, loop>>

ExportCleanup ==
    /\ job.pc = "cleanup"
    /\ job' = exportCleanup(job)
    /\ UNCHANGED <<hookVars, pipe, fb, geo, loop>>

HookReceives ==
    /\ job.pc = "returned"
    /\ job' = hookReceives(job)
    /\ UNCHANGED <<hookVars, pipe, fb, geo, loop>>

\* One stop-recording-stream call, with or without an open stream.
InitExport ==
    /\ InitHook
    /\ pipe = NoPipe
    /\ fb = NoBuffer
    /\ loop = NoLoop
    /\ geo = NoGeo
    /\ job \in {[NoJob EXCEPT !.temp = x] : x \in {"none", "open"}}

NextExport ==
    \/ ExportInvoke
    \/ ExportStreamEnded
    \/ ExportDialog
    \/ ExportProbed
    \/ ExportCodecsProbed
    \/ ExportStarted
    \/ ExportTimer
    \/ ExportProgress
    \/ ExportEnd
    \/ ExportError
    \/ ExportCopied
    \/ ExportCleanup
    \/ HookReceives

SpecExport == InitExport /\ [][NextExport]_vars

\* ------------------------- the stream handlers of the main process
\* ipcMain.handle('start-recording-stream'): the path and the stream replace
\* the module-level ones.  createWriteStream reports its errors later, on
\* the stream, so the catch is not taken.
startRecordingStream(m) ==
    LET n == m.opened + 1
    IN  [m EXCEPT !.opened = n,
                  !.recordingTempPath = n,
                  !.recordingWriteStream = n,
                  !.streams[n] = "open",
                  !.files[n] = "exists",
                  !.ret = [op |-> "start", value |-> "success"]]

\* ipcMain.handle('write-recording-chunk').  A write on a stream whose end
\* was requested writes nothing and does not throw.
writeRecordingChunk(m) ==
    LET s == m.recordingWriteStream
    IN  IF s # 0
        THEN [m EXCEPT !.written[s] = IF m.streams[s] = "open" THEN @ + 1
                                       ELSE @,
                       !.ret = [op |-> "write", value |-> "true"]]
        ELSE [m EXCEPT !.ret = [op |-> "write", value |-> "false"]]

\* ipcMain.handle('stop-recording-stream') up to the await of end().
stopInvoke(m) ==
    IF m.recordingWriteStream = 0
    THEN [m EXCEPT !.stop = [NoStop EXCEPT !.pc = "returned",
                                           !.result = "nostream"],
                   !.ret = [op |-> "stop", value |-> "No active stream"]]
    ELSE [m EXCEPT !.streams[m.recordingWriteStream] = "ending",
                   !.stop = [NoStop EXCEPT !.pc = "ending",
                                           !.ending = m.recordingWriteStream]]

\* The stream has finished: the module-level stream is set to null, the
\* module-level path is read, and the save dialog is shown.
stopStreamEnded(m) ==
    [m EXCEPT !.streams[m.stop.ending] = "ended",
              !.recordingWriteStream = 0,
              !.stop.tempInput = m.recordingTempPath,
              !.stop.prompted = TRUE,
              !.stop.pc = "dialog"]

\* The save dialog returned: a declined prompt unlinks tempInput.
stopDialog(m, canceled) ==
    IF canceled
    THEN [m EXCEPT !.files[m.stop.tempInput] = "deleted",
                   !.stop.result = "canceled",
                   !.stop.pc = "returned",
                   !.ret = [op |-> "stop", value |-> "canceled"]]
    ELSE [m EXCEPT !.stop.pc = "export"]

\* The copy or the transcoder has finished: tempInput is unlinked on
\* success and kept on an error.
stopExported(m, ok) ==
    IF ok
    THEN [m EXCEPT !.files[m.stop.tempInput] = "deleted",
                   !.stop.result = "success",
                   !.stop.pc = "returned",
                   !.ret = [op |-> "stop", value |-> "success"]]
    ELSE [m EXCEPT !.stop.result = "error",
                   !.stop.pc = "returned",
                   !.ret = [op |-> "stop", value |-> "error"]]

streamVars ==
    <<isRecording, isPaused, isExporting, recordingDuration, saveFormat,
      isAuthorized, timerIntervalRef, isProcessingRef, recordingRegionRef,
      mediaRecorderRef, displayStreamRef, cameraStreamRef,
      recordingCanvasRef, nextCall, call, feed, recorder, canvas, onstop,
      alerts, ticks, recordingWriteStream, stream, job, pipe, fb, geo, loop>>

StartRecordingStream ==
    /\ ipc.opened < MaxStreams
    /\ ipc' = startRecordingStream(ipc)
    /\ UNCHANGED streamVars

WriteRecordingChunk ==
    /\ \A n \in Streams : ipc.written[n] < MaxWrites
    /\ ipc' = writeRecordingChunk(ipc)
    /\ UNCHANGED streamVars

\* One stop-recording-stream call at a time.
StopInvoke ==
    /\ ipc.stop.pc \in {"idle", "returned"}
    /\ ipc' = stopInvoke(ipc)
    /\ UNCHANGED streamVars

StopStreamEnded ==
    /\ ipc.stop.pc = "ending"
    /\ ipc' = stopStreamEnded(ipc)
    /\ UNCHANGED streamVars

StopDialog ==
    /\ ipc.stop.pc = "dialog"
    /\ \E canceled \in BOOLEAN : ipc' = stopDialog(ipc, canceled)
    /\ UNCHANGED streamVars

StopExported ==
    /\ ipc.stop.pc = "export"
    /\ \E ok \in BOOLEAN : ipc' = stopExported(ipc, ok)
    /\ UNCHANGED streamVars

\* The three handlers under calls in any order: a handler suspended at an
\* await lets the others run.
NextStream ==
    \/ StartRecordingStream
    \/ WriteRecordingChunk
    \/ StopInvoke
    \/ StopStreamEnded
    \/ StopDialog
    \/ StopExported

SpecStream == Init /\ [][NextStream]_vars

\* ------------------------------------ chunks: ondataavailable to the file
\* mediaRecorder.ondataavailable up to `await e.data.arrayBuffer()`.
chunkAvailable(q) ==
    [q EXCEPT !.produced = @ + 1, !.reading = @ \cup {q.produced + 1}]

\* mediaRecorder.stop(): the encoder flushes a last chunk and queues onstop.
chunkStop(q) ==
    [chunkAvailable(q) EXCEPT !.encoder = "inactive", !.onstop = "queued"]

\* The arrayBuffer() of chunk c resolved: writeRecordingChunk(buffer), and
\* write-recording-chunk in the main process, which drops the chunk and
\* returns false when no stream is open.
chunkWrite(q, c) ==
    IF q.streamOpen
    THEN [q EXCEPT !.reading = @ \ {c}, !.file = Append(@, c)]
    ELSE [q EXCEPT !.reading = @ \ {c}, !.dropped = @ \cup {c}]

\* onstop up to its 100 ms wait.
chunkOnStop(q) == [q EXCEPT !.onstop = "delay"]

\* onstop after the wait: stopRecordingStream, which ends the stream.
chunkFinalize(q) == [q EXCEPT !.onstop = "finalize", !.streamOpen = FALSE]

ChunkAvailable ==
    /\ pipe.encoder = "recording"
    /\ pipe.produced < MaxChunks
    /\ pipe' = chunkAvailable(pipe)
    /\ UNCHANGED <<hookVars, job, fb, geo, loop>>

ChunkStop ==
    /\ pipe.encoder = "recording"
    /\ pipe' = chunkStop(pipe)
    /\ UNCHANGED <<hookVars, job, fb, geo, loop>>

\* The reads of the chunks' blobs run in parallel; each may finish at any
\* time.
ChunkWrite ==
    /\ \E c \in pipe.reading : pipe' = chunkWrite(pipe, c)
    /\ UNCHANGED <<hookVars, job, fb, geo, loop>>

ChunkOnStop ==
    /\ pipe.onstop = "queued"
    /\ pipe' = chunkOnStop(pipe)
    /\ UNCHANGED <<hookVars, job, fb, geo, loop>>

ChunkFinalize ==
    /\ pipe.onstop = "delay"
    /\ pipe' = chunkFinalize(pipe)
    /\ UNCHANGED <<hookVars, job, fb, geo, loop>>

\* A session in Recording: the temp stream is open, the encoder started.
InitChunks ==
    /\ InitHook
    /\ job = NoJob
    /\ fb = NoBuffer
    /\ loop = NoLoop
    /\ geo = NoGeo
    /\ pipe = [NoPipe EXCEPT !.encoder = "recording", !.streamOpen = TRUE]

NextChunks ==
    \/ ChunkAvailable
    \/ ChunkStop
    \/ ChunkWrite
    \/ ChunkOnStop
    \/ ChunkFinalize

SpecChunks == InitChunks /\ [][NextChunks]_vars

\* ------------------------------------------------------------ FrameBuffer
\* Frame rates passed to adjustQueueDepth: the rates the hook uses (30, 60,
\* and 25, 55 after a congested evaluation), the floor 15, and rates on both
\* sides of the steps of the depth formula.
FpsValues == {12, 15, 18, 19, 24, 25, 30, 31, 42, 43, 55, 60}
\* Capacities passed to the constructor.
Capacities == {5, 8}
DropStrategies == {"drop-oldest", "drop-newest"}

\* Math.ceil((fps / 30) * 5), for a whole number of frames per second.
CeilDepth(fps) == (fps * 5 + 29) \div 30

\* adjustQueueDepth rounding down instead of up.
adjustQueueDepthFloors(b, fps) ==
    LET calculated == (fps * 5) \div 30
        capped == IF calculated > MaxQueueDepth THEN MaxQueueDepth
                  ELSE calculated
    IN  [b EXCEPT !.maxSize = IF capped < MinQueueDepth THEN MinQueueDepth
                              ELSE capped,
                  !.onlyAdded = FALSE,
                  !.ret = [NoCallYet EXCEPT !.op = "adjust", !.fps = fps]]

adjustQueueDepth(b, fps) ==
    LET calculated == CeilDepth(fps)
        capped == IF calculated > MaxQueueDepth THEN MaxQueueDepth
                  ELSE calculated
    IN  [b EXCEPT !.maxSize = IF capped < MinQueueDepth THEN MinQueueDepth
                              ELSE capped,
                  !.onlyAdded = FALSE,
                  !.ret = [NoCallYet EXCEPT !.op = "adjust", !.fps = fps]]

\* add with the capacity test off by one: evicts only above capacity.
addAboveCapacity(b) ==
    LET frame == b.framesReceived + 1
        full == Len(b.queue) > b.maxSize
        kept == IF ~full THEN b.queue
                ELSE IF b.dropStrategy = "drop-oldest"
                THEN (IF b.queue = <<>> THEN <<>> ELSE Tail(b.queue))
                ELSE SubSeq(b.queue, 1, Len(b.queue) - 1)
    IN  [b EXCEPT !.framesReceived = frame,
                  !.framesDropped = IF full THEN @ + 1 ELSE @,
                  !.queue = Append(kept, frame),
                  !.ret = [NoCallYet EXCEPT !.op = "add", !.ok = TRUE]]

\* add that ignores the strategy and always evicts the head.
addAlwaysShifts(b) ==
    LET frame == b.framesReceived + 1
        full == Len(b.queue) >= b.maxSize
        kept == IF ~full THEN b.queue
                ELSE IF b.queue = <<>> THEN <<>> ELSE Tail(b.queue)
    IN  [b EXCEPT !.framesReceived = frame,
                  !.framesDropped = IF full THEN @ + 1 ELSE @,
                  !.queue = Append(kept, frame),
                  !.ret = [NoCallYet EXCEPT !.op = "add", !.ok = TRUE]]

\* add(frame): frames are numbered in the order they are received.
add(b) ==
    LET frame == b.framesReceived + 1
        full == Len(b.queue) >= b.maxSize
        kept == IF ~full THEN b.queue
                ELSE IF b.dropStrategy = "drop-oldest"
                THEN (IF b.queue = <<>> THEN <<>> ELSE Tail(b.queue))
                ELSE SubSeq(b.queue, 1, Len(b.queue) - 1)
    IN  [b EXCEPT !.framesReceived = frame,
                  !.framesDropped = IF full THEN @ + 1 ELSE @,
                  !.queue = Append(kept, frame),
                  !.ret = [NoCallYet EXCEPT !.op = "add", !.ok = TRUE]]

get(b) ==
    IF b.queue = <<>>
    THEN [b EXCEPT !.onlyAdded = FALSE,
                   !.ret = [NoCallYet EXCEPT !.op = "get"]]
    ELSE [b EXCEPT !.queue = Tail(@), !.framesProcessed = @ + 1,
                   !.onlyAdded = FALSE,
                   !.ret = [NoCallYet EXCEPT !.op = "get",
                                             !.frames = <<Head(b.queue)>>]]

\* getAll counting one processed frame however many it returns.
getAllCountsOne(b) ==
    [b EXCEPT !.queue = <<>>, !.framesProcessed = @ + 1,
              !.onlyAdded = FALSE,
              !.ret = [NoCallYet EXCEPT !.op = "getAll", !.frames = b.queue]]

getAll(b) ==
    [b EXCEPT !.queue = <<>>, !.framesProcessed = @ + Len(b.queue),
              !.onlyAdded = FALSE,
              !.ret = [NoCallYet EXCEPT !.op = "getAll", !.frames = b.queue]]

clear(b) ==
    [b EXCEPT !.queue = <<>>, !.onlyAdded = FALSE, !.cleared = TRUE,
              !.ret = [NoCallYet EXCEPT !.op = "clear"]]

\* getStats(): the counters, the queue length and the drop rate, here in
\* whole percent rounded down.
getStats(b) ==
    [framesReceived |-> b.framesReceived,
     framesDropped |-> b.framesDropped,
     framesProcessed |-> b.framesProcessed,
     currentQueueDepth |-> Len(b.queue),
     dropRate |-> IF b.framesReceived > 0
                  THEN (b.framesDropped * 100) \div b.framesReceived
                  ELSE 0]

Add ==
    /\ fb.framesReceived < MaxFrames
    /\ fb' = add(fb)
    /\ UNCHANGED <<hookVars, job, pipe, geo, loop>>

Get ==
    /\ fb' = get(fb)
    /\ UNCHANGED <<hookVars, job, pipe, geo, loop>>

GetAll ==
    /\ fb' = getAll(fb)
    /\ UNCHANGED <<hookVars, job, pipe, geo, loop>>

Clear ==
    /\ fb' = clear(fb)
    /\ UNCHANGED <<hookVars, job, pipe, geo, loop>>

AdjustQueueDepth ==
    /\ \E fps \in FpsValues : fb' = adjustQueueDepth(fb, fps)
    /\ UNCHANGED <<hookVars, job, pipe, geo, loop>>

\* new FrameBuffer({maxSize, dropStrategy})
InitBuffer ==
    /\ InitHook
    /\ job = NoJob
    /\ pipe = NoPipe
    /\ fb \in {[NoBuffer EXCEPT !.maxSize = m, !.dropStrategy = d] :
                 m \in Capacities, d \in DropStrategies}
    /\ geo = NoGeo
    /\ loop = NoLoop

NextBuffer ==
    \/ Add
    \/ Get
    \/ GetAll
    \/ Clear
    \/ AdjustQueueDepth

SpecBuffer == InitBuffer /\ [][NextBuffer]_vars

\* ------------------------------------------- selection, region and crops
\* Math.min and Math.max.
MinOf(a, b) == IF a < b THEN a ELSE b
MaxOf(a, b) == IF a > b THEN a ELSE b

\* primary.bounds of the display, and its workArea (the display without the
\* dock or task bar); NoSize stands for a display entry without workArea.
ScreenBounds == {[width |-> 22, height |-> 5]}
WorkAreas == {[width |-> 22, height |-> 5], [width |-> 22, height |-> 4],
              NoSize}
\* Rectangles sent by the selection UI, in quarters of a pixel: inside the
\* display, across each edge, and wholly outside; width and height are at
\* least one pixel.
SelX == (-6 .. 6) \cup (56 .. 64) \cup (82 .. 94)
SelWidths == {4, 6, 8, 28, 58, 60, 61, 62, 84, 88, 92}
SelY == {-4, 0, 2, 8, 18}
SelHeights == {4, 12, 13, 20, 28}
\* videoWidth x videoHeight of the captured screen.
VideoSizes ==
    {[width |-> 1, height |-> 1], [width |-> 22, height |-> 5],
     [width |-> 44, height |-> 10], [width |-> 1920, height |-> 1080]}
\* Regions passed to startRecording directly: quarters of the surface.
Quarters == 0 .. 4

\* Math.round(v * (screen / work)) for v given in quarters: to the nearest
\* whole number, a half going up.  Exact in double precision on the sizes
\* above.
RoundScaled(v4, screen, work) == (v4 * screen + 2 * work) \div (4 * work)

\* <<n, d, size>> for which (n / d) * size in double precision is just below
\* the whole number n * size / d: 15 / 22 * 22 = 14.999999999999998.
FloatLow == {<<15, 22, 22>>, <<15, 22, 44>>}

\* Math.floor((n / d) * size) in double precision, on the sizes above.
FloorScaled(n, d, size) ==
    IF <<n, d, size>> \in FloatLow THEN (n * size) \div d - 1
    ELSE (n * size) \div d

\* The handler with the width and height limited to the display only, not to
\* what is left of it right of and below the origin.
onAreaSelectionResultLoose(g) ==
    IF g.work = NoSize
    THEN [g EXCEPT !.pc = "fullscreen", !.hasRegion = FALSE]
    ELSE
    LET screenWidth == IF g.screen.width # 0 THEN g.screen.width
                       ELSE g.work.width
        screenHeight == IF g.screen.height # 0 THEN g.screen.height
                        ELSE g.work.height
        finalX == MaxOf(0, MinOf(screenWidth - 1,
                      RoundScaled(g.bounds.x, screenWidth,
                                        g.work.width)))
        finalY == MaxOf(0, MinOf(screenHeight - 1,
                      RoundScaled(g.bounds.y, screenHeight,
                                        g.work.height)))
        roundedW == RoundScaled(g.bounds.width, screenWidth, g.work.width)
        roundedH == RoundScaled(g.bounds.height, screenHeight, g.work.height)
        finalW == MaxOf(1, MinOf(screenWidth, roundedW))
        finalH == MaxOf(1, MinOf(screenHeight, roundedH))
    IN  [g EXCEPT !.pc = "preview", !.hasRegion = TRUE,
                  !.region = [xn |-> finalX, yn |-> finalY, wn |-> finalW,
                              hn |-> finalH, dw |-> screenWidth,
                              dh |-> screenHeight]]

\* The handler of 'area-selection-result' for a rectangle: the normalized
\* region, or the full-screen fallback when the display has no workArea.
onAreaSelectionResult(g) ==
    IF g.work = NoSize
    THEN [g EXCEPT !.pc = "fullscreen", !.hasRegion = FALSE]
    ELSE
    LET screenWidth == IF g.screen.width # 0 THEN g.screen.width
                       ELSE g.work.width
        screenHeight == IF g.screen.height # 0 THEN g.screen.height
                        ELSE g.work.height
        workAreaWidth == g.work.width
        workAreaHeight == g.work.height
        finalX == MaxOf(0, MinOf(screenWidth - 1,
                      RoundScaled(g.bounds.x, screenWidth,
                                        workAreaWidth)))
        finalY == MaxOf(0, MinOf(screenHeight - 1,
                      RoundScaled(g.bounds.y, screenHeight,
                                        workAreaHeight)))
        roundedW == RoundScaled(g.bounds.width, screenWidth, workAreaWidth)
        roundedH == RoundScaled(g.bounds.height, screenHeight,
                                workAreaHeight)
        finalW == MaxOf(1, MinOf(screenWidth - finalX, roundedW))
        finalH == MaxOf(1, MinOf(screenHeight - finalY, roundedH))
    IN  [g EXCEPT !.pc = "preview", !.hasRegion = TRUE,
                  !.region = [xn |-> finalX, yn |-> finalY, wn |-> finalW,
                              hn |-> finalH, dw |-> screenWidth,
                              dh |-> screenHeight]]

\* The preview crop with the width and height rounded up.
previewCropCeils(region, videoWidth, videoHeight) ==
    LET cropX == MaxOf(0, MinOf(videoWidth - 1,
                     FloorScaled(region.xn, region.dw, videoWidth)))
        cropY == MaxOf(0, MinOf(videoHeight - 1,
                     FloorScaled(region.yn, region.dh, videoHeight)))
        rawCropWidth ==
            (region.wn * videoWidth + region.dw - 1) \div region.dw
        rawCropHeight ==
            (region.hn * videoHeight + region.dh - 1) \div region.dh
    IN  [x |-> cropX, y |-> cropY,
         width |-> MaxOf(1, MinOf(videoWidth - cropX, rawCropWidth)),
         height |-> MaxOf(1, MinOf(videoHeight - cropY, rawCropHeight))]

\* The crop of the preview canvas.
previewCrop(region, videoWidth, videoHeight) ==
    LET cropX == MaxOf(0, MinOf(videoWidth - 1,
                     FloorScaled(region.xn, region.dw, videoWidth)))
        cropY == MaxOf(0, MinOf(videoHeight - 1,
                     FloorScaled(region.yn, region.dh, videoHeight)))
        rawCropWidth == FloorScaled(region.wn, region.dw, videoWidth)
        rawCropHeight == FloorScaled(region.hn, region.dh, videoHeight)
    IN  [x |-> cropX, y |-> cropY,
         width |-> MaxOf(1, MinOf(videoWidth - cropX, rawCropWidth)),
         height |-> MaxOf(1, MinOf(videoHeight - cropY, rawCropHeight))]

\* The size startRecording works with: videoWidth || 1920, videoHeight || 1080.
Dimensions(v) ==
    [width |-> IF v.width # 0 THEN v.width ELSE 1920,
     height |-> IF v.height # 0 THEN v.height ELSE 1080]

\* The recording crop with the width and height limited to the frame only.
recordingCropLoose(hasRegion, region, width, height) ==
    IF ~hasRegion
    THEN [x |-> 0, y |-> 0, width |-> width, height |-> height]
    ELSE
    LET cropX == MaxOf(0, MinOf(width - 1,
                     FloorScaled(region.xn, region.dw, width)))
        cropY == MaxOf(0, MinOf(height - 1,
                     FloorScaled(region.yn, region.dh, height)))
    IN  [x |-> cropX, y |-> cropY,
         width |-> MaxOf(1, MinOf(width,
                      FloorScaled(region.wn, region.dw, width))),
         height |-> MaxOf(1, MinOf(height,
                      FloorScaled(region.hn, region.dh, height)))]

\* The crop of the recording canvas: the whole frame without a region.
recordingCrop(hasRegion, region, width, height) ==
    IF ~hasRegion
    THEN [x |-> 0, y |-> 0, width |-> width, height |-> height]
    ELSE
    LET rawCropX == FloorScaled(region.xn, region.dw, width)
        rawCropY == FloorScaled(region.yn, region.dh, height)
        rawCropWidth == FloorScaled(region.wn, region.dw, width)
        rawCropHeight == FloorScaled(region.hn, region.dh, height)
        cropX == MaxOf(0, MinOf(width - 1, rawCropX))
        cropY == MaxOf(0, MinOf(height - 1, rawCropY))
        cropWidth == MaxOf(1, MinOf(width - cropX, rawCropWidth))
        cropHeight == MaxOf(1, MinOf(height - cropY, rawCropHeight))
    IN  [x |-> cropX, y |-> cropY, width |-> cropWidth,
         height |-> cropHeight]

regionVars == <<hookVars, job, pipe, fb, loop>>

AreaSelectionResult ==
    /\ geo.pc = "selected"
    /\ geo' = onAreaSelectionResult(geo)
    /\ UNCHANGED regionVars

PreviewCrop ==
    /\ geo.pc = "preview"
    /\ \E v \in VideoSizes :
          geo' = [geo EXCEPT !.pc = "previewed", !.previewVideo = v,
                             !.preview = previewCrop(geo.region, v.width,
                                                     v.height)]
    /\ UNCHANGED regionVars

\* The crop computation of startRecording, called with the preview region
\* (handleStart) or without a region (the fallback of the handler).
StartRecordingCrop ==
    /\ geo.pc \in {"previewed", "fullscreen"}
    /\ \E v \in VideoSizes \cup {NoSize} :
          LET d == Dimensions(v)
          IN  geo' = [geo EXCEPT !.pc = "cropped", !.video = v,
                                 !.crop = recordingCrop(geo.hasRegion,
                                              geo.region, d.width, d.height)]
    /\ UNCHANGED regionVars

\* A rectangle arrives from the selection UI, or startRecording is given a
\* region of quarters.
InitRegion ==
    /\ InitHook
    /\ job = NoJob
    /\ pipe = NoPipe
    /\ fb = NoBuffer
    /\ loop = NoLoop
    /\ \/ \E x \in SelX, y \in SelY, w \in SelWidths, h \in SelHeights,
             sb \in ScreenBounds, wa \in WorkAreas :
             geo = [NoGeo EXCEPT !.pc = "selected", !.from = "selection",
                                 !.bounds = [x |-> x, y |-> y, width |-> w,
                                             height |-> h],
                                 !.screen = sb, !.work = wa]
       \/ \E x \in Quarters, y \in Quarters, w \in Quarters, h \in Quarters :
             geo = [NoGeo EXCEPT !.pc = "preview", !.from = "direct",
                                 !.hasRegion = TRUE,
                                 !.region = [xn |-> x, yn |-> y, wn |-> w,
                                             hn |-> h, dw |-> 4, dh |-> 4]]

NextRegion ==
    \/ AreaSelectionResult
    \/ PreviewCrop
    \/ StartRecordingCrop

SpecRegion == InitRegion /\ [][NextRegion]_vars

\* ------------------------------------------------- encoder bitrate
\* Widths and heights of the recorded picture, around the steps of the
\* bitrate function, and target frame rates.
PictureWidths == {1, 640, 1280, 1281, 1920, 1921, 2560, 2561, 3840, 7680}
PictureHeights == {1, 480, 720, 721, 1080, 1081, 1440, 1441, 2160, 4320}
FrameRates == {25, 30, 55, 60}

\* The bitrate scaled with the frame rate, and not capped.
calculateOptimalBitrateScaled(width, height, fps) ==
    LET pixels == width * height
        bitrate == IF pixels <= 1280 * 720 THEN 5000000
                   ELSE IF pixels <= 1920 * 1080 THEN 10000000
                   ELSE 12000000
    IN  (bitrate * fps) \div 30

\* PerformanceOptimizer.calculateOptimalBitrate
calculateOptimalBitrate(width, height, fps) ==
    LET pixels == width * height
        bitrate == IF pixels <= 1280 * 720 THEN 5000000
                   ELSE IF pixels <= 1920 * 1080 THEN 10000000
                   ELSE IF pixels <= 2560 * 1440 THEN 12000000
                   ELSE 12000000
    IN  MinOf(bitrate, MaxBitrate)

\* startRecording, step 6: the bitrate of the encoder it creates.
CalculateOptimalBitrate ==
    /\ geo.pc = "sized"
    /\ geo' = [geo EXCEPT !.pc = "rated",
                          !.bitrate = calculateOptimalBitrate(
                              geo.video.width, geo.video.height, geo.fps)]
    /\ UNCHANGED regionVars

InitBitrate ==
    /\ InitHook
    /\ job = NoJob
    /\ pipe = NoPipe
    /\ fb = NoBuffer
    /\ loop = NoLoop
    /\ \E w \in PictureWidths, h \in PictureHeights, f \in FrameRates :
          geo = [NoGeo EXCEPT !.pc = "sized", !.fps = f,
                              !.video = [width |-> w, height |-> h]]

NextBitrate == CalculateOptimalBitrate

SpecBitrate == InitBitrate /\ [][NextBitrate]_vars

\* ------------------------------------------------------- the draw loop
\* targetFrameRate when a session starts: the stored 30 or 60, or a rate
\* left by the congestion response of an earlier session.
TargetFrameRates == {15, 20, 30, 60}
\* PerformanceOptimizer.calculateOptimalFps
OptimalFps == {30, 60}

\* getStats().dropRate > 10
DropRateAbove10(b) ==
    /\ b.framesReceived > 0
    /\ b.framesDropped * 100 > 10 * b.framesReceived

\* startRecording up to the start of the draw loop: the buffer is created
\* and sized, and the frame rate is limited to what the hardware allows.
startDrawLoop(l, optimalFps) ==
    LET created == [NoBuffer EXCEPT !.maxSize = 5]
        actualFps == MinOf(l.targetFrameRate, optimalFps)
    IN  [loop |-> [NoLoop EXCEPT !.pc = "drawing",
                                 !.targetFrameRate = actualFps,
                                 !.actualFps = actualFps],
         fb |-> adjustQueueDepth(
                    adjustQueueDepth(created, l.targetFrameRate), actualFps)]

\* draw with a congestion step of 10.
drawStepsTen(l, b) ==
    LET frameCount == l.frameCount + 1
        evaluates == frameCount % EvaluationPeriod = 0
        high == evaluates /\ DropRateAbove10(b)
        newFps == MaxOf(MinFrameRate, l.actualFps - 10)
    IN  [loop |-> [l EXCEPT !.frameCount = frameCount,
                            !.targetFrameRate = IF high THEN newFps ELSE @,
                            !.congested = IF high THEN @ + 1 ELSE @,
                            !.evaluated = IF ~evaluates THEN "none"
                                          ELSE IF high THEN "high"
                                          ELSE "low"],
         fb |-> IF high THEN adjustQueueDepth(b, newFps) ELSE b]

\* One drawn frame of the loop, with the performance check every 30 frames.
draw(l, b) ==
    LET frameCount == l.frameCount + 1
        evaluates == frameCount % EvaluationPeriod = 0
        high == evaluates /\ DropRateAbove10(b)
        newFps == MaxOf(MinFrameRate, l.actualFps - FrameRateStep)
    IN  [loop |-> [l EXCEPT !.frameCount = frameCount,
                            !.targetFrameRate = IF high THEN newFps ELSE @,
                            !.congested = IF high THEN @ + 1 ELSE @,
                            !.evaluated = IF ~evaluates THEN "none"
                                          ELSE IF high THEN "high"
                                          ELSE "low"],
         fb |-> IF high THEN adjustQueueDepth(b, newFps) ELSE b]

\* interval = 1000 / actualFps, in units of 25/3 ms.
Interval(fps) == 120 \div fps

\* The callback with lastDrawTime reset to the time of the call.
onAnimationFrameResets(l, b, timestamp) ==
    LET interval == Interval(l.actualFps)
        elapsed == timestamp - l.lastDrawTime
    IN  IF elapsed >= interval
        THEN draw([l EXCEPT !.lastDrawTime = timestamp,
                            !.timestamp = timestamp], b)
        ELSE [loop |-> [l EXCEPT !.timestamp = timestamp], fb |-> b]

\* The requestAnimationFrame callback of the loop, called at timestamp: a
\* frame is drawn when one is due, and nothing happens otherwise.
onAnimationFrame(l, b, timestamp) ==
    LET interval == Interval(l.actualFps)
        elapsed == timestamp - l.lastDrawTime
    IN  IF elapsed >= interval
        THEN draw([l EXCEPT !.lastDrawTime = timestamp - (elapsed % interval),
                            !.timestamp = timestamp], b)
        ELSE [loop |-> [l EXCEPT !.timestamp = timestamp], fb |-> b]

drawVars == <<hookVars, job, pipe, geo>>

StartDrawLoop ==
    /\ loop.pc = "idle"
    /\ \E optimalFps \in OptimalFps :
          LET r == startDrawLoop(loop, optimalFps)
          IN  loop' = r.loop /\ fb' = r.fb
    /\ UNCHANGED drawVars

\* A callback at the time the next frame is due.
Draw ==
    /\ loop.pc = "drawing"
    /\ loop.frameCount < MaxDrawn
    /\ LET r == onAnimationFrame(loop, fb,
                    loop.lastDrawTime + Interval(loop.actualFps))
       IN  loop' = r.loop /\ fb' = r.fb
    /\ UNCHANGED drawVars

\* A frame is put into the session's buffer, or taken from it.
FrameArrives ==
    /\ loop.pc = "drawing"
    /\ Add

FrameTaken ==
    /\ loop.pc = "drawing"
    /\ Get

\* stopDrawing, and the buffer cleared and released.
StopDrawing ==
    /\ loop.pc = "drawing"
    /\ loop' = [loop EXCEPT !.pc = "stopped", !.evaluated = "none"]
    /\ fb' = clear(fb)
    /\ UNCHANGED drawVars

InitDraw ==
    /\ InitHook
    /\ job = NoJob
    /\ pipe = NoPipe
    /\ geo = NoGeo
    /\ fb = NoBuffer
    /\ \E t \in TargetFrameRates : loop = [NoLoop EXCEPT !.targetFrameRate = t]

NextDraw ==
    \/ StartDrawLoop
    \/ Draw
    \/ FrameArrives
    \/ FrameTaken
    \/ StopDrawing

SpecDraw == InitDraw /\ [][NextDraw]_vars

\* A callback at any time from the previous one on, at most MaxGap later.
AnimationFrame ==
    /\ loop.pc = "drawing"
    /\ \E timestamp \in loop.timestamp .. MinOf(MaxTime,
                                               loop.timestamp + MaxGap) :
          LET r == onAnimationFrame(loop, fb, timestamp)
          IN  loop' = r.loop /\ fb' = r.fb
    /\ UNCHANGED drawVars

\* The pace of the draw loop under callbacks at arbitrary times.
NextPace ==
    \/ StartDrawLoop
    \/ AnimationFrame
    \/ StopDrawing

SpecPace == InitDraw /\ [][NextPace]_vars

\* ------------------------------------------------------------------ claims
Active == {"recording", "paused"}
\* A startRecording call suspended at an await.
InFlight == {"screen", "mic", "camera", "play", "file", "fileOk", "fileErr"}
Acquiring == {"screen", "mic", "camera"}

LiveFeeds(k) == {f \in {"screen", "mic", "cam"} : feed[k][f] = "live"}

\* C1: at most one recording session is active at any time: there is never
\* more than one encoder that is not inactive, nor more than one live screen
\* feed, nor more than one open temp stream.
C1_SingleActiveSession ==
    /\ Cardinality({k \in Calls : recorder[k] \in Active}) <= 1
    /\ Cardinality({k \in Calls : feed[k].screen = "live"}) <= 1
    /\ Cardinality({k \in Calls : stream[k] = "open"}) <= 1

\* C2: while a startRecording call is suspended in feed acquisition the
\* processing flag is set, so that a duplicate call returns at once.
C2_DuplicateStartRejected ==
    \A k \in Calls : call[k].pc \in Acquiring => isProcessingRef

\* C3: once the onstop handler of a session's encoder has run, no feed that
\* the session's start acquired is still live.
C3_FeedsReleasedAfterStop ==
    \A k \in Calls : onstop[k] = "done" => LiveFeeds(k) = {}

\* C4: when startRecording fails, at its return every feed it acquired is
\* stopped, isRecording and isPaused are false, the processing flag is clear
\* and the error was shown.
C4_FailedStartCleansUp ==
    [][\A k \in Calls :
          (call[k].pc # "failed" /\ call'[k].pc = "failed")
          => /\ LiveFeeds(k)' = {}
             /\ ~isRecording'
             /\ ~isPaused'
             /\ ~isProcessingRef'
             /\ alerts'.startFailed # "none"]_vars

\* C5: a microphone or camera failure never aborts the start: a call fails
\* only at the screen feed, the temp stream or the encoder, and a call whose
\* microphone or camera failed still ends with the encoder recording and
\* isRecording true, without the failed feed.
C5_SoftFailuresDoNotAbort ==
    [][\A k \in Calls :
          /\ (call[k].pc # "failed" /\ call'[k].pc = "failed")
             => call[k].pc \in {"screen", "fileErr", "fileOk"}
          /\ (call[k].pc \in {"mic", "camera"})
             => (call'[k].pc \in InFlight /\ call'[k].pc # "fileErr")
          /\ (call[k].pc # "done" /\ call'[k].pc = "done")
             => /\ isRecording'
                /\ recorder'[k] = "recording"
                /\ call'[k].micFailed => feed'[k].mic = "none"
                /\ call'[k].cameraFailed => feed'[k].cam = "none"]_vars

C5_Witness ==
    \E k \in Calls : /\ call[k].pc = "done"
                     /\ call[k].micFailed
                     /\ call[k].cameraFailed
                     /\ recorder[k] = "recording"
                     /\ isRecording

\* C6: a call selects Composite Mode if and only if a region was passed to it
\* or its camera is enabled and its camera feed was acquired.
C6_ModeSelection ==
    \A k \in Calls :
        call[k].mode # "none"
        => (call[k].mode = "composite"
            <=> (call[k].region # "none"
                 \/ (call[k].includeCamera /\ feed[k].cam # "none")))

\* C7: the encoder is paused only in a Recording session and resumed only in
\* a Paused one; in every other state of the hook pause and resume change
\* nothing.
C7_PauseResumeOnlyWhenValid ==
    [][/\ PauseRecording => (isRecording /\ ~isPaused)
       /\ ResumeRecording => (isRecording /\ isPaused)]_vars

\* C8: recordingDuration changes only by a reset to 0 in an accepted
\* startRecording or by a tick of exactly 1 while Recording and not Paused.
C8_DurationMonotone ==
    [][recordingDuration' # recordingDuration
       => \/ (recordingDuration' = 0 /\ nextCall' = nextCall + 1)
          \/ /\ isRecording
             /\ ~isPaused
             /\ recordingDuration' = recordingDuration + 1]_vars

C8_Witness ==
    /\ isRecording
    /\ isPaused
    /\ recordingDuration >= 2

\* A timer tick: the only step that adds 1 to recordingDuration.
IsTick == recordingDuration' = recordingDuration + 1

EncoderStopped ==
    /\ mediaRecorderRef' # 0
    /\ recorder'[mediaRecorderRef'] = "inactive"
    /\ ~isRecording'

\* C9: with the GIF format selected, the tick that brings recordingDuration
\* to 60 stops the encoder, and the GIF auto-stop calls stopRecording at most
\* once for each session's encoder.
C9_GifAutoStopOnce ==
    /\ [](\A k \in 0..MaxSessions : alerts.gifStops[k] <= 1)
    /\ [][(IsTick /\ saveFormat = "gif"
                  /\ recordingDuration' >= GifMaxDuration)
          => /\ EncoderStopped
             /\ recorder[mediaRecorderRef] \in Active
             /\ alerts'.gifStops[mediaRecorderRef] = 1]_vars

C9_Witness ==
    /\ saveFormat = "gif"
    /\ recordingDuration = GifMaxDuration
    /\ mediaRecorderRef # 0
    /\ alerts.gifStops[mediaRecorderRef] = 1
    /\ ~isRecording
    /\ onstop[mediaRecorderRef] = "queued"

\* C10: with a cap maxDuration > 0, the tick that brings recordingDuration to
\* the cap stops the encoder and shows the limit notice, once for each
\* session's encoder; a session that is Paused, or runs under cap 0, is
\* neither stopped by the limit nor shown the notice.
C10_LicenseLimitOnce ==
    /\ [](\A k \in 0..MaxSessions : /\ alerts.limitNotices[k] <= 1
                                    /\ alerts.limitStops[k] <= 1)
    /\ [][/\ (IsTick /\ getMaxRecordingDuration(isAuthorized) > 0
                     /\ recordingDuration'
                        >= getMaxRecordingDuration(isAuthorized))
             => /\ EncoderStopped
                /\ recorder[mediaRecorderRef] \in Active
                /\ alerts'.limitStops[mediaRecorderRef] = 1
                /\ alerts'.limitNotices[mediaRecorderRef] = 1
          /\ (PauseRecording \/ getMaxRecordingDuration(isAuthorized') = 0
              \/ (isPaused /\ isPaused'))
             => /\ alerts'.limitStops = alerts.limitStops
                /\ alerts'.limitNotices = alerts.limitNotices]_vars

C10_Witness ==
    /\ recordingDuration = UnlicensedMaxDuration
    /\ mediaRecorderRef # 0
    /\ alerts.limitNotices[mediaRecorderRef] = 1
    /\ alerts.limitStops[mediaRecorderRef] = 1
    /\ ~isRecording
    /\ onstop[mediaRecorderRef] = "queued"

\* The stages of an encoder's onstop handler, in order.
OnStopOrder ==
    {<<"none", "queued">>, <<"queued", "delay">>, <<"delay", "finalize">>,
     <<"finalize", "reply">>, <<"reply", "done">>}

\* C11: whatever stop requests arrive, an encoder is stopped once (an
\* inactive encoder stays inactive and its stop queues its onstop handler
\* once), the handler runs through its stages once, so the finalize call is
\* issued once; and when the encoder stops, recordingDuration equals the
\* number of timer ticks since the last accepted startRecording.
C11_StoppedAndFinalizedOnce ==
    [][\A k \in Calls :
          /\ recorder[k] = "inactive" => recorder'[k] = "inactive"
          /\ (recorder[k] \in Active /\ recorder'[k] = "inactive")
             => /\ onstop[k] = "none"
                /\ onstop'[k] = "queued"
                /\ recordingDuration' = ticks'
          /\ onstop'[k] # onstop[k]
             => <<onstop[k], onstop'[k]>> \in OnStopOrder]_vars

\* A Direct Mode session stopped after 5 ticks.
C11_Witness ==
    \E k \in Calls : /\ call[k].mode = "direct"
                     /\ recorder[k] = "inactive"
                     /\ onstop[k] = "reply"
                     /\ ticks = 5
                     /\ recordingDuration = 5

\* The handler has returned its reply.
Returned == job.pc \in {"returned", "done"}

C13_TranscodeFailureKeepsTemp ==
    /\ job.transcoder = "failed"
       => /\ job.result = "error"
          /\ job.error = "tool"
          /\ job.temp = "closed"
    /\ job.result = "success"
       => /\ job.temp = "deleted"
          /\ job.transcoder = "ended" \/ job.copied
    /\ Returned
       => Cardinality({f \in {"success", "canceled", "error"} :
                          Reply(job.result)[f]}) = 1

C13_Witness ==
    /\ job.pc = "done"
    /\ job.transcoder = "failed"
    /\ job.result = "error"
    /\ job.temp = "closed"
    /\ job.hookAlert

\* C16: within one export job the values sent on 'export-progress' never
\* decrease.
C16_ProgressMonotone ==
    [][job.sent.last' >= job.sent.last]_vars

VideoCopied == job.options \cap {"-c copy", "-c:v copy"} # {}
\* A job without an audio track copies none.
AudioCopied ==
    job.acodec # "none" /\ job.options \cap {"-c copy", "-c:a copy"} # {}

\* C18: in an MP4 transcode the video track is copied iff the probed video
\* codec is h264 and the audio track is copied iff the probed audio codec is
\* aac or mp3; when both are, no re-encode parameter is applied; fast start,
\* constant frame rate and audio resync are applied in every case.
C18_StreamCopyDecision ==
    (job.format = "mp4" /\ job.dest = ".mp4" /\ job.transcoder # "none")
    => /\ VideoCopied <=> job.vcodec = "h264"
       /\ AudioCopied <=> job.acodec \in {"aac", "mp3"}
       /\ (job.vcodec = "h264" /\ job.acodec \in {"aac", "mp3"})
          => job.options \cap (VideoEncode \cup AudioEncode \cup {"-r 30"})
             = {}
       /\ Mp4Flags \subseteq job.options

C18_Witness ==
    /\ job.format = "mp4"
    /\ job.vcodec = "h264"
    /\ job.acodec = "aac"
    /\ job.useStreamCopy
    /\ job.transcoder = "ended"
    /\ job.options = {"-c copy"} \cup Mp4Flags

\* C19: for a format other than GIF the byte copy is taken only for a .webm
\* destination and every other destination is produced by the transcoder;
\* for GIF the transcoder always re-encodes.
C19_ByteCopyOnlyForWebm ==
    /\ job.copied => (job.format # "gif" /\ job.dest = ".webm")
    /\ (job.format # "gif" /\ job.result = "success" /\ job.dest # ".webm")
       => job.transcoder = "ended"
    /\ (job.format = "gif" /\ job.result = "success")
       => (job.transcoder = "ended" /\ job.options = GifOptions)

\* C14: the chunks are written to the temp file in the order the encoder
\* produced them.
C14_ChunksWrittenInOrder ==
    \A i, j \in 1..Len(pipe.file) : i < j => pipe.file[i] < pipe.file[j]

\* C15: no chunk is dropped, and once stop-recording-stream has ended the
\* stream every chunk the encoder produced is in the temp file.
C15_NoChunkAfterClose ==
    /\ pipe.dropped = {}
    /\ pipe.onstop = "finalize"
       => \A c \in 1..pipe.produced :
             \E i \in 1..Len(pipe.file) : pipe.file[i] = c

\* C20: the queue of a FrameBuffer never holds more than maxSize frames.
C20_QueueWithinCapacity ==
    Len(fb.queue) <= fb.maxSize

\* C21: on a FrameBuffer that has only received add calls (fixed capacity,
\* nothing dequeued), after n calls the queue holds min(n, capacity) frames,
\* framesReceived is n and framesDropped is max(0, n - capacity).
C21_FillCounts ==
    fb.onlyAdded =>
        /\ Len(fb.queue) = MinOf(fb.framesReceived, fb.maxSize)
        /\ fb.framesDropped = MaxOf(0, fb.framesReceived - fb.maxSize)

\* More add calls than the capacity, for each capacity of the constructor.
C21_Witness ==
    /\ fb.onlyAdded
    /\ fb.maxSize = 8
    /\ fb.framesReceived = 10
    /\ fb.framesDropped = 2
    /\ Len(fb.queue) = 8

\* The queue without its last entry.
Front(q) == SubSeq(q, 1, Len(q) - 1)

\* C22: add returns true and leaves the new frame last; on a full queue it
\* evicts exactly one entry first, the head under drop-oldest and the tail
\* under drop-newest, and keeps the others in order; get removes and returns
\* the head; getAll returns the queue in order and empties it.
C22_AddGetContract ==
    [][LET q == fb.queue
           r == fb'.ret
       IN  /\ r.op = "add" =>
                /\ r.ok
                /\ fb'.queue # <<>>
                /\ fb'.queue[Len(fb'.queue)] = fb.framesReceived + 1
                /\ Len(q) < fb.maxSize => Front(fb'.queue) = q
                /\ (Len(q) >= fb.maxSize /\ fb.dropStrategy = "drop-oldest")
                   => Front(fb'.queue) = Tail(q)
                /\ (Len(q) >= fb.maxSize /\ fb.dropStrategy = "drop-newest")
                   => Front(fb'.queue) = Front(q)
           /\ (r.op = "get" /\ q # <<>>) =>
                /\ r.frames = <<Head(q)>>
                /\ fb'.queue = Tail(q)
           /\ r.op = "getAll" =>
                /\ r.frames = q
                /\ fb'.queue = <<>>]_vars

\* A full drop-newest queue has evicted its tail for a new frame, and a get
\* has then returned the oldest frame.
C22_Witness ==
    /\ fb.dropStrategy = "drop-newest"
    /\ fb.framesDropped >= 1
    /\ fb.ret.op = "get"
    /\ fb.ret.frames = <<1>>
    /\ fb.queue # <<>>
    /\ fb.queue[Len(fb.queue)] = fb.framesReceived

\* C23: adjustQueueDepth(fps) sets the capacity to ceil(fps / 30 * 5) clamped
\* to [3, 8]; the capacity it sets is never lower than the one it sets for a
\* lower fps, in particular for half the fps.
C23_DepthClampedMonotone ==
    fb.ret.op = "adjust" =>
        LET fps == fb.ret.fps
            exact == CHOOSE n \in 0..fps : n * 30 >= fps * 5
                                           /\ (n - 1) * 30 < fps * 5
        IN  /\ fb.maxSize \in MinQueueDepth..MaxQueueDepth
            /\ fb.maxSize = MaxOf(3, MinOf(8, exact))
            /\ \A g \in FpsValues :
                   g <= fps => adjustQueueDepth(fb, g).maxSize <= fb.maxSize
            /\ \A g \in FpsValues :
                   g * 2 = fps => adjustQueueDepth(fb, g).maxSize <= fb.maxSize

\* The capacity was recomputed for 30 frames per second after the queue had
\* held frames under another capacity.
C23_Witness ==
    /\ fb.ret.op = "adjust"
    /\ fb.ret.fps = 30
    /\ fb.maxSize = 5
    /\ fb.framesReceived > 0

\* The region's four values are in [0, 1].
InUnitSquare(r) ==
    /\ r.xn \in 0..r.dw
    /\ r.wn \in 0..r.dw
    /\ r.yn \in 0..r.dh
    /\ r.hn \in 0..r.dh

\* C24: for a region with x, y, width, height in [0, 1] and a capture size of
\* at least 1 x 1 the recording crop lies inside the captured frame; for the
\* region {0.25, 0.25, 0.5, 0.5} on 1920 x 1080 it is {480, 270, 960, 540}.
C24_CropInsideSurface ==
    (geo.pc = "cropped" /\ geo.hasRegion /\ InUnitSquare(geo.region)) =>
        LET d == Dimensions(geo.video)
            c == geo.crop
        IN  /\ 0 <= c.x
            /\ 0 <= c.y
            /\ c.x + c.width <= d.width
            /\ c.y + c.height <= d.height
            /\ (/\ geo.region = [xn |-> 1, yn |-> 1, wn |-> 2, hn |-> 2,
                                  dw |-> 4, dh |-> 4]
                /\ d = [width |-> 1920, height |-> 1080])
               => c = [x |-> 480, y |-> 270, width |-> 960, height |-> 540]

\* A region reaching beyond the right and bottom edges was cropped on a
\* 44 x 10 frame.
C24_Witness ==
    /\ geo.pc = "cropped"
    /\ geo.region = [xn |-> 3, yn |-> 3, wn |-> 4, hn |-> 4, dw |-> 4,
                     dh |-> 4]
    /\ geo.video = [width |-> 44, height |-> 10]
    /\ geo.crop = [x |-> 33, y |-> 7, width |-> 11, height |-> 3]

\* C25: the region the handler of the selection result produces has
\* 0 <= x, 0 <= y, x + width <= 1 and y + height <= 1, also for a rectangle
\* partly or wholly outside the display.
C25_RegionNormalized ==
    (geo.from = "selection" /\ geo.hasRegion) =>
        /\ 0 <= geo.region.xn
        /\ 0 <= geo.region.yn
        /\ geo.region.xn + geo.region.wn <= geo.region.dw
        /\ geo.region.yn + geo.region.hn <= geo.region.dh

\* A rectangle wholly right of and below the display was converted.
C25_Witness ==
    /\ geo.from = "selection"
    /\ geo.hasRegion
    /\ geo.bounds.x = 94
    /\ geo.bounds.y = 18
    /\ geo.work = [width |-> 22, height |-> 4]
    /\ geo.region.xn = 21
    /\ geo.region.wn = 1
    /\ geo.region.yn = 4

\* C26: when the preview and the recording see the same frame size, they
\* compute the same crop rectangle for the same region.
C26_PreviewMatchesRecording ==
    (geo.pc = "cropped" /\ geo.hasRegion /\ geo.video = geo.previewVideo)
        => geo.crop = geo.preview

\* Both crops were computed on a 44 x 10 frame for a selected region.
C26_Witness ==
    /\ geo.pc = "cropped"
    /\ geo.from = "selection"
    /\ geo.video = [width |-> 44, height |-> 10]
    /\ geo.previewVideo = geo.video
    /\ geo.region.xn = 15
    /\ geo.crop.x = 29
    /\ geo.crop.width > 1

Distance(a, b) == IF a >= b THEN a - b ELSE b - a

\* The rectangle lies inside the display (bounds in quarters of a pixel).
InsideDisplay(g) ==
    /\ g.bounds.x >= 0
    /\ g.bounds.y >= 0
    /\ g.bounds.x + g.bounds.width <= 4 * g.screen.width
    /\ g.bounds.y + g.bounds.height <= 4 * g.screen.height

\* C27: when the work area is the whole display and the captured frame has
\* the size of the display, the recording crop of a rectangle inside the
\* display differs from the rectangle by at most 1 pixel in x, y, width and
\* height.
C27_RoundTripWithinOnePixel ==
    (/\ geo.pc = "cropped"
     /\ geo.from = "selection"
     /\ geo.hasRegion
     /\ geo.work = geo.screen
     /\ geo.video = geo.screen
     /\ InsideDisplay(geo)) =>
        /\ Distance(4 * geo.crop.x, geo.bounds.x) <= 4
        /\ Distance(4 * geo.crop.y, geo.bounds.y) <= 4
        /\ Distance(4 * geo.crop.width, geo.bounds.width) <= 4
        /\ Distance(4 * geo.crop.height, geo.bounds.height) <= 4

\* C28: calculateOptimalBitrate never returns more than 12,000,000 bits per
\* second, and a picture with no more pixels never gets a higher bitrate.
C28_BitrateCappedMonotone ==
    geo.pc = "rated" =>
        /\ geo.bitrate <= 12000000
        /\ \A w \in PictureWidths, h \in PictureHeights, f \in FrameRates :
               w * h <= geo.video.width * geo.video.height
               => calculateOptimalBitrate(w, h, f) <= geo.bitrate

\* A 4K picture at 60 frames per second was given the highest bitrate.
C28_Witness ==
    /\ geo.pc = "rated"
    /\ geo.video = [width |-> 3840, height |-> 2160]
    /\ geo.fps = 60
    /\ geo.bitrate = 12000000

\* This step is a call of draw.
IsDraw == loop'.frameCount = loop.frameCount + 1

\* C29: in a session drawing at 30 frames per second, a performance
\* evaluation happens at a multiple of 30 drawn frames; the first one that
\* sees a drop rate above 10% sets the target frame rate to 25 and the
\* buffer capacity to 5, and one that sees at most 10% changes neither.
C29_CongestionResponseAt30 ==
    [][(IsDraw /\ loop.actualFps = 30 /\ loop'.evaluated # "none") =>
           /\ loop'.frameCount % 30 = 0
           /\ (loop'.evaluated = "high" /\ loop.congested = 0)
              => (loop'.targetFrameRate = 25 /\ fb'.maxSize = 5)
           /\ loop'.evaluated = "low"
              => (/\ loop'.targetFrameRate = loop.targetFrameRate
                  /\ fb'.maxSize = fb.maxSize)]_vars

\* The evaluation at frame 30 of a session at 30 frames per second has just
\* seen one frame in six dropped.
C29_Witness ==
    /\ loop.pc = "drawing"
    /\ loop.actualFps = 30
    /\ loop.frameCount = 30
    /\ loop.evaluated = "high"
    /\ loop.congested = 1
    /\ fb.framesReceived = 6
    /\ fb.framesDropped = 1
    /\ loop.targetFrameRate = 25
    /\ fb.maxSize = 5

\* C30: within a session every evaluation that sees a drop rate above 10%
\* lowers the target frame rate by 5 from its current value, not below 15,
\* and no step of the compositor raises the target frame rate.
C30_AdditiveDecrease ==
    [][/\ (IsDraw /\ loop'.evaluated = "high")
          => loop'.targetFrameRate = MaxOf(15, loop.targetFrameRate - 5)
       /\ (loop.pc = "drawing" /\ loop'.pc = "drawing")
          => loop'.targetFrameRate <= loop.targetFrameRate]_vars

\* C31: isExporting and isRecording are never both true, whatever start and
\* stop calls arrive, a start issued while the previous session is being
\* finalized included.
C31_NotExportingWhileRecording == ~(isExporting /\ isRecording)

\* An onstop handler between the start of its finalization and the
\* resumption of its await of the finalize call.
Finalizing == {"delay", "finalize", "reply"}

\* C32: isExporting is true exactly while an onstop handler is between the
\* start of its finalization and the return of its finalize call, and when
\* the finalize call is issued every feed of the session is stopped and its
\* draw loop is halted.
C32_ExportingExactlyWhileFinalizing ==
    /\ isExporting <=> \E k \in Calls : onstop[k] \in Finalizing
    /\ \A k \in Calls :
          onstop[k] \in {"finalize", "reply"}
          => /\ LiveFeeds(k) = {}
             /\ canvas[k] # "drawing"

\* C33: when the codec probe of an MP4 export fails, the export goes on: the
\* transcoder is spawned with the H.264 encoder (preset and CRF) for the
\* video and the fixed AAC parameters for the audio and with no stream copy,
\* and the reply is an error only if the transcoder itself failed.
C33_ProbeFailureReencodes ==
    job.probe = "failed"
    => /\ job.transcoder # "none"
       /\ ~job.useStreamCopy
       /\ VideoEncode \subseteq job.options
       /\ AudioEncode \subseteq job.options
       /\ job.options \cap {"-c copy", "-c:v copy", "-c:a copy"} = {}
       /\ job.result = "error" => job.transcoder = "failed"
       /\ (Returned /\ job.transcoder = "ended") => job.result = "success"

\* An MP4 export whose probe failed was re-encoded and saved.
C33_Witness ==
    /\ job.probe = "failed"
    /\ job.format = "mp4"
    /\ job.dest = ".mp4"
    /\ job.transcoder = "ended"
    /\ job.result = "success"
    /\ job.pc = "done"

\* A region inside the unit square: x + width <= 1 and y + height <= 1.
ValidRegion(r) ==
    /\ r.xn >= 0 /\ r.yn >= 0 /\ r.wn >= 0 /\ r.hn >= 0
    /\ r.xn + r.wn <= r.dw
    /\ r.yn + r.hn <= r.dh

\* C34: for a valid region the recording crop lies inside the selected
\* rectangle scaled to the frame: cropX >= x * W, cropY >= y * H,
\* cropX + cropWidth <= (x + width) * W and
\* cropY + cropHeight <= (y + height) * H.
C34_CropInsideSelection ==
    (geo.pc = "cropped" /\ geo.hasRegion /\ ValidRegion(geo.region))
    => LET r == geo.region
           d == Dimensions(geo.video)
       IN  /\ geo.crop.x * r.dw >= r.xn * d.width
           /\ geo.crop.y * r.dh >= r.yn * d.height
           /\ (geo.crop.x + geo.crop.width) * r.dw
              <= (r.xn + r.wn) * d.width
           /\ (geo.crop.y + geo.crop.height) * r.dh
              <= (r.yn + r.hn) * d.height

\* C35: a frame is drawn only when timestamp - lastDrawTime >= interval, and
\* a draw moves lastDrawTime forward by a whole multiple of the interval to a
\* time not after timestamp and less than one interval before it, so that
\* lastDrawTime is always a multiple of the interval.
C35_PacedOnGrid ==
    /\ [](loop.pc = "drawing"
          => loop.lastDrawTime % Interval(loop.actualFps) = 0)
    /\ [][(loop.pc = "drawing" /\ loop'.pc = "drawing")
          => LET interval == Interval(loop.actualFps)
             IN  IF IsDraw
                 THEN /\ loop'.timestamp - loop.lastDrawTime >= interval
                      /\ loop'.lastDrawTime > loop.lastDrawTime
                      /\ (loop'.lastDrawTime - loop.lastDrawTime)
                         % interval = 0
                      /\ loop'.lastDrawTime <= loop'.timestamp
                      /\ loop'.timestamp - loop'.lastDrawTime < interval
                 ELSE loop'.lastDrawTime = loop.lastDrawTime]_vars

\* A late callback at 30 frames per second: lastDrawTime moved forward by
\* three intervals at once, to a time before the callback.
C35_Witness ==
    /\ loop.pc = "drawing"
    /\ loop.actualFps = 30
    /\ loop.frameCount = 2
    /\ loop.lastDrawTime = 4 * Interval(30)
    /\ loop.timestamp = loop.lastDrawTime + 3

\* The hook is idle: no startRecording call is suspended, it is neither
\* recording nor exporting, and no encoder is active or waiting for its
\* onstop handler.
HookIdle ==
    /\ \A k \in Calls : /\ call[k].pc \notin InFlight
                        /\ recorder[k] \notin Active
                        /\ onstop[k] \notin {"queued"} \cup Finalizing
    /\ ~isRecording
    /\ ~isExporting

\* C36: whenever the hook is idle the main process holds no open recording
\* stream: a start that failed after its stream was opened has closed it.
C36_NoStreamWhenIdle ==
    HookIdle => /\ recordingWriteStream = 0
                /\ \A k \in Calls : stream[k] # "open"

\* C37: write-recording-chunk called with no stream open writes nothing and
\* returns false; stop-recording-stream called with no stream open returns
\* 'No active stream' without a prompt and changes neither a file nor the
\* streaming state; and when a stop-recording-stream call returns, no stream
\* is open.
C37_StreamHandlersContract ==
    [][/\ (WriteRecordingChunk /\ ipc.recordingWriteStream = 0)
          => ipc' = [ipc EXCEPT !.ret = [op |-> "write", value |-> "false"]]
       /\ (StopInvoke /\ ipc.recordingWriteStream = 0)
          => ipc' = [ipc EXCEPT
                        !.stop = [NoStop EXCEPT !.pc = "returned",
                                                !.result = "nostream"],
                        !.ret = [op |-> "stop",
                                 value |-> "No active stream"]]
       /\ (ipc.stop.pc # "returned" /\ ipc'.stop.pc = "returned")
          => /\ ipc'.recordingWriteStream = 0
             /\ \A n \in Streams : ipc'.streams[n] # "open"]_vars

\* C38: isPaused implies isRecording in every state of the hook, whatever
\* start, pause, resume, stop and auto-stop events arrive.
C38_PausedImpliesRecording == isPaused => isRecording

\* C39: on a FrameBuffer on which clear was never called, after any add,
\* get, getAll and adjustQueueDepth calls the statistics satisfy
\* framesReceived = framesDropped + framesProcessed + currentQueueDepth and
\* framesDropped <= framesReceived, and dropRate is 0 when nothing was
\* received.
C39_StatsConserved ==
    ~fb.cleared
    => LET stats == getStats(fb)
       IN  /\ stats.framesReceived
              = stats.framesDropped + stats.framesProcessed
                + stats.currentQueueDepth
           /\ stats.framesDropped <= stats.framesReceived
           /\ stats.framesReceived = 0 => stats.dropRate = 0

\* MaxFrames frames were received: some were dropped, some taken one by one, and
\* the rest has just been taken in a batch, after the capacity was adjusted
\* to its minimum.
C39_Witness ==
    /\ ~fb.cleared
    /\ fb.framesReceived = MaxFrames
    /\ fb.framesDropped >= 2
    /\ fb.framesProcessed >= 3
    /\ fb.ret.op = "getAll"
    /\ Len(fb.ret.frames) >= 2
    /\ fb.maxSize = MinQueueDepth

\* No encoder is active: none was started, or the current one is inactive.
NoActiveEncoder ==
    mediaRecorderRef = 0 \/ recorder[mediaRecorderRef] = "inactive"

\* C40: stopRecording called while no encoder is active does the forced
\* cleanup and nothing else: no onstop handler is queued and the main
\* process is not called, so nothing is finalized; isExporting is not
\* changed; and isRecording and isPaused are false afterwards.
C40_StopWithoutEncoderOnlyCleans ==
    [][(StopRecording /\ NoActiveEncoder)
       => /\ Cur' = cleanupStreams(Cur)
          /\ onstop' = onstop
          /\ recorder' = recorder
          /\ recordingWriteStream' = recordingWriteStream
          /\ stream' = stream
          /\ isExporting' = isExporting
          /\ ~isRecording'
          /\ ~isPaused']_vars

\* stopRecording was called while the only startRecording call was
\* suspended after it had acquired the screen feed: the feed is stopped.
C40_Witness ==
    /\ nextCall = 1
    /\ mediaRecorderRef = 0
    /\ call[1].pc \in {"mic", "camera", "play", "file", "fileOk"}
    /\ feed[1].screen = "stopped"
    /\ displayStreamRef = 0
    /\ ~isRecording
    /\ ~isExporting

====
